---- MODULE Spec2Model ----
(***************************************************************************)
(* A model of the filesapi storage layer: the S3 backend's buffered        *)
(* recursive delete, its Walk and its chunked multipart copy, and the      *)
(* local (block) backend's lookups, deletes and multipart emulation.       *)
(*                                                                         *)
(* Keys and paths are integers.  fileKey is an object that exists,         *)
(* dirPath is a prefix (no object of that name; its descendants are the    *)
(* keys 1..n), absentPath names nothing.  A continuation token is the last *)
(* key of the page that produced it.                                       *)
(***************************************************************************)
EXTENDS Integers, Sequences, FiniteSets, TLC

------------------------------------------------------------------------------
(* Bounds of the model *)

\* longest DeleteObjects input
MaxPaths == 2
\* how many keys beyond maxDelBufferSize the largest prefix holds
ExtraKeys == 1
\* the small configured page size (S3FSConfig.MaxKeys) and the small prefix
SmallPage == 2
\* backend failures injected per behaviour
MaxFaults == 1
\* pages a caller's Walk may fetch before the model stops following it
MaxWalkPages == 4
\* bytes in the model's MiB
MiB == 1
\* how many chunks beyond the large-object threshold the largest source holds
ExtraChunks == 1
\* longest chunk written, and largest configured chunk size, in bytes
MaxChunkBytes == 2
\* WriteChunk calls per behaviour
MaxWrites == 3
\* longest local DeleteObjects input
MaxLocalPaths == 2
\* lookups made on each store
MaxLookups == 2
\* PutObject calls per behaviour
MaxPuts == 3
\* longest payload written by PutObject
MaxPayloadLen == 2
\* largest Retryer.MaxAttempts
MaxMaxAttempts == 3
\* how many values the retried operation can return
MaxSendValue == 2
\* most entries under the directory ListDir lists
MaxListKeys == 3
\* largest small ListDirInput.Size
MaxListSize == 2
\* largest ListDirInput.Page
MaxListPage == 2
\* most paths under the root of a local Walk, the root included
MaxWalkEntries == 3
\* longest input handed to parseRange, in characters
MaxRangeLen == 6
\* width in bits of the model's int64
RangeIntBits == 5
\* clock ticks in one second
Second == 2
\* width in bits of the model's time.Duration
DurationBits == 24
\* single ticks the clock makes in one behaviour
MaxClockSteps == 3
\* most query parameters of a URL handed to PresignObject
MaxOrigParams == 2
\* entries beyond maxDelBufferSize the model records in the delete buffer
MaxBufferExcess == 4
\* multipart calls made in one behaviour
MaxSessCalls == 3
\* concurrent WriteChunk calls begun in one behaviour
MaxLockCalls == 3
\* longest object read by a ranged GetObject, in bytes
MaxGetLen == 12
\* most decimal digits of an offset in the range of a GetObject
MaxOffsetDigits == 2
\* upload ids a caller can name
MaxUploadIds == 2

------------------------------------------------------------------------------
(* Program constants *)

DEFAULTMAXKEYS == 1000
maxDelBufferSize == 1000

\* The byte unit of the copy sizes.  The source counts in MiB of 1024 * 1024
\* bytes; its large-object threshold, 5000 MiB, is beyond the integers TLC
\* computes with, so the model counts in units of MiB bytes.
max_copy_chunk_size == 5 * MiB
max_put_object_copy_size == 5000 * MiB
defaultChunkSize == 10 * MiB

Nil == -9
fileKey == 0
dirPath == -1
absentPath == -2

Callers == {1, 2}

Min(a, b) == IF a < b THEN a ELSE b

------------------------------------------------------------------------------
VARIABLES
  bucket,                    \* keys stored in the S3 bucket
  bucket0,                   \* the bucket before the calls began
  maxKeys,                   \* S3FS.maxKeys
  ignoreContinuationOnWalk,  \* S3FS.ignoreContinuationOnWalk
  op,                        \* per caller: the call it is running
  pc,                        \* per caller: its position in that call
  objects,                   \* per caller: input.Delete.Objects (keys)
  idx,                       \* per caller: position of the range loop
  delBuffer,                 \* per caller: deleteListImpl's delBuffer
  errs,                      \* per caller: deleteListImpl's errs
  ret,                       \* per caller: the value the call returned
  prefix,                    \* per caller: Walk's query.Prefix
  token,                     \* per caller: Walk's query.ContinuationToken
  resp,                      \* per caller: the last ListObjectsV2 response
  pos,                       \* per caller: position in resp.Contents
  count,                     \* per caller: Walk's count (pages done)
  visitLog,                  \* per caller: keys handed to the caller's visitor
  lastReq,                   \* per caller: keys of the last bulk-delete request
  nReq,                      \* per caller: bulk-delete requests sent
  sentBefore,                \* per caller: keys sent by requests before lastReq
  failedOps,                 \* per caller: errors the bulk-delete requests returned
  faults                     \* backend failures injected so far

s3vars == <<bucket, bucket0, maxKeys, ignoreContinuationOnWalk, op, pc, objects, idx,
            delBuffer, errs, ret, prefix, token, resp, pos, count, visitLog,
            lastReq, nReq, sentBefore, failedOps, faults>>

VARIABLES
  fileSize,        \* CopyObject: info.Size() of the source
  cpPc,            \* CopyObject: position of the call
  uploadId,        \* copyPartsTo: state of the multipart session
  i,               \* copyPartsTo: offset of the next part
  partNumber,      \* copyPartsTo: number of the next part
  parts,           \* copyPartsTo: the completed parts collected
  partRequests,    \* part-copy requests sent: their part number and range
  partTags,        \* the ETag the backend returned for each part copied
  partFailed,      \* whether a part-copy request failed
  abortRequests,   \* abort requests attempted
  completeRequests,\* the part lists passed to completion requests
  partsErr,        \* what copyPartsTo returned
  copyErr          \* what CopyObject returned

copyvars == <<fileSize, cpPc, uploadId, i, partNumber, parts, partRequests,
              partTags, partFailed, abortRequests, completeRequests, partsErr,
              copyErr>>

VARIABLES
  fs,              \* the local filesystem: per path its kind, bytes, access
  ChunkSize,       \* BlockFS.Config.ChunkSize
  session,         \* the id InitializeObjectUpload returned, 0 before it
  initFresh,       \* whether the destination was absent when it was initialized
  written,         \* the WriteChunk calls since InitializeObjectUpload
  nWrites,         \* WriteChunk calls made
  completed,       \* whether CompleteObjectUpload has returned
  lookup,          \* per backend: the last GetObjectInfo / GetObject call
  ldPc,            \* local DeleteObjects: position of the call
  ldPaths,         \* local DeleteObjects: doi.Paths.Paths
  ldIdx,           \* local DeleteObjects: position of the range loop
  ldErr,           \* local DeleteObjects: its variable err
  ldRet,           \* local DeleteObjects: the list returned
  ldFailed,        \* local DeleteObjects: paths whose removal failed
  progress         \* local DeleteObjects: progress events emitted

localvars == <<fs, ChunkSize, session, initFresh, written, nWrites, completed,
               lookup, ldPc, ldPaths, ldIdx, ldErr, ldRet, ldFailed, progress>>

VARIABLES
  putPayload,      \* PutObject: the payload the callers write
  putLog           \* PutObject: per call its source kind, destination and result

putvars == <<putPayload, putLog>>

\* the variables of the operations beside the S3 delete, the copy and the
\* local upload, lookup and delete
VARIABLES
  MaxAttempts,     \* Retryer.MaxAttempts
  attempts,        \* Send: its variable attempts
  sendLog,         \* Send: the pair each invocation of sendFunction returned
  sendPc,          \* Send: position of the call
  sendRet          \* Send: the pair it returned

retryvars == <<MaxAttempts, attempts, sendLog, sendPc, sendRet>>

VARIABLES
  listInput,       \* ListDir: input (whether Filter is set, Size, Page)
  listPrefixSet,   \* ListDir: the entries the backend groups as common prefixes
  listMatch,       \* ListDir: the entries whose key contains input.Filter
  listPc,          \* ListDir: position of the call
  listMaxKeys,     \* ListDir: params.MaxKeys
  listToken,       \* getAllUpToMax: continuationToken; getPage: the paginator's token
  listMore,        \* getPage: paginator.HasMorePages()
  currentPage,     \* getPage: currentPage
  prefixes,        \* getPage, getAllUpToMax: prefixes
  listObjects,     \* getPage, getAllUpToMax: objects
  objcount,        \* getAllUpToMax: objcount
  listRet          \* ListDir: what it returned

listvars == <<listInput, listPrefixSet, listMatch, listPc, listMaxKeys, listToken,
              listMore, currentPage, prefixes, listObjects, objcount, listRet>>

VARIABLES
  visitorErrs,     \* S3 Walk, per caller: errors its visitor function returned
  lwEntries,       \* local Walk: paths filepath.Walk finds, the root first
  lwIdx,           \* local Walk: the path filepath.Walk is at
  lwVisited,       \* local Walk: paths handed to the visitor function
  lwPc,            \* local Walk: position of the call
  lwRet            \* local Walk: the error it returned

visitvars == <<visitorErrs>>

lwalkvars == <<lwEntries, lwIdx, lwVisited, lwPc, lwRet>>

VARIABLES
  rangeInput,      \* parseRange: the input string, a sequence of characters
  rangePc,         \* parseRange: position of the call
  rangeOut         \* parseRange: the Range and the error it returned

rangevars == <<rangeInput, rangePc, rangeOut>>

VARIABLES
  signUri,         \* signing: the URL handed to PresignObject
  signKey,         \* signing: the HMAC key
  signExp,         \* signing: PresignInputOptions.Expiration
  now,             \* the clock, in ticks
  clockSteps,      \* single ticks the clock has made
  signPc,          \* signing: position ("call", "signed", "rejected")
  signedUrl,       \* signing: the URL PresignObject returned, as it is now
  signErr,         \* signing: the error PresignObject returned
  signedAt,        \* signing: the clock when PresignObject ran
  tampered,        \* index of the query parameter changed after signing, or 0
  verifyOut,       \* what VerifySignedObject returned at the current instant
  everOk           \* VerifySignedObject has returned true for the URL

signvars == <<signUri, signKey, signExp, now, clockSteps, signPc, signedUrl, signErr,
              signedAt, tampered, verifyOut, everOk>>

VARIABLES
  sessIssued,      \* per backend: the ids InitializeObjectUpload has returned
  sessFile,        \* local backend: the destination file
  sessParts,       \* S3 backend: the parts stored, as <<upload id, part number>>
  sessObjects,     \* S3 backend: the upload ids whose object has been assembled
  sessLog          \* the multipart calls made, with what they returned

sessvars == <<sessIssued, sessFile, sessParts, sessObjects, sessLog>>

VARIABLES
  listDirOut       \* local ListDir: the path of the last call and what it returned

ldirvars == <<listDirOut>>

VARIABLES
  srcOut,          \* per backend: the PutObject call made with any ObjectSource
  s3Store          \* S3 backend: what each destination key holds

srcvars == <<srcOut, s3Store>>

VARIABLES
  wcPc,            \* concurrent WriteChunk: where each goroutine's call stands
  wcArg,           \* concurrent WriteChunk: the UploadConfig of each call
  wcMutex,         \* concurrent WriteChunk: the mutex each call allocated
  wcAllocated,     \* concurrent WriteChunk: the mutexes allocated so far
  wcHeld,          \* concurrent WriteChunk: the mutexes that are locked
  wcFile           \* concurrent WriteChunk: the file at u.ObjectPath

lockvars == <<wcPc, wcArg, wcMutex, wcAllocated, wcHeld, wcFile>>

VARIABLES
  getThere,        \* ranged GetObject: whether the object exists
  getData,         \* ranged GetObject: the bytes both stores hold for the object
  getRange,        \* ranged GetObject: GetObjectInput.Range
  getOut           \* ranged GetObject: per backend what the call returned

getvars == <<getThere, getData, getRange, getOut>>

morevars == <<signvars, sessvars, ldirvars, srcvars, lockvars, getvars>>

restvars == <<putvars, retryvars, listvars, visitvars, lwalkvars, rangevars, morevars>>

vars == <<s3vars, copyvars, localvars, restvars>>

------------------------------------------------------------------------------
(* The S3 backend, as the code sees it *)

\* whether key k lies under prefix p
HasPrefix(k, p) == IF p = dirPath THEN k >= 1 ELSE k = p

\* the largest number of keys under dirPath
MaxKeyCount == maxDelBufferSize + ExtraKeys

\* the keys a bucket can hold, in the order the store lists them
KeySeq == [n \in 1..(MaxKeyCount + MaxListKeys + 1) |-> n - 1]

\* s3client.ListObjectsV2 with an empty delimiter: one page of the keys
\* under p after token t, in key order
ListObjectsV2(b, p, t, mk) ==
  LET cand == SelectSeq(KeySeq, LAMBDA k : k \in b /\ HasPrefix(k, p) /\ (t = Nil \/ k > t))
      n    == Min(mk, Len(cand))
      page == SubSeq(cand, 1, n)
  IN [Contents |-> page,
      IsTruncated |-> Len(cand) > n,
      NextContinuationToken |-> IF Len(cand) > n /\ n > 0 THEN page[n] ELSE Nil]

\* s3client.GetObjectAttributes: whether attributes came back, and the cause
\* of the failure when they did not
GetObjectAttributes(b, key, fault) ==
  IF fault THEN [resp |-> FALSE, cause |-> "AccessDenied"]
  ELSE IF key \in b THEN [resp |-> TRUE, cause |-> "none"]
  ELSE [resp |-> FALSE, cause |-> "NoSuchKey"]

\* errors.As(err, &noSuchKey)
AsNoSuchKey(cause) == cause = "NoSuchKey"

\* the error S3FS.GetObjectInfo returns, from the cause the backend reported
S3GetObjectInfoErr(cause) ==
  IF AsNoSuchKey(cause) THEN "FileNotFoundError"
  ELSE IF cause = "none" THEN "nil" ELSE cause

\* S3FS.GetObjectInfo: the info wraps resp, the error is converted
S3GetObjectInfo(b, key, fault) ==
  LET out == GetObjectAttributes(b, key, fault)
  IN [hasAttributes |-> out.resp, err |-> S3GetObjectInfoErr(out.cause)]

\* an IsDir that takes no path for a prefix
IsDirNever(info) == FALSE

\* S3AttributesFileInfo.IsDir
IsDir(info) == ~info.hasAttributes

\* NewFileStore's choice of S3FS.maxKeys from S3FSConfig.MaxKeys
S3MaxKeys(cfgMaxKeys) == IF cfgMaxKeys > 0 THEN cfgMaxKeys ELSE DEFAULTMAXKEYS

Range(s) == {s[n] : n \in 1..Len(s)}

\* outcomes the backend can give a bulk-delete request: the whole request
\* fails, or it is answered with per-key errors for the keys in bad; the
\* service refuses a request of more than 1000 keys
DeleteOutcomes(req, canFail) ==
  IF Len(req) > maxDelBufferSize THEN {[err |-> "MalformedXML", bad |-> {}]}
  ELSE {[err |-> "nil", bad |-> {}]} \cup
       (IF canFail THEN {[err |-> "RequestFailed", bad |-> {}],
                         [err |-> "nil", bad |-> {req[1]}]}
        ELSE {})

\* S3FS.flushDeletes on buffer buf with backend outcome o: the errors returned
flushDeletes(buf, o) ==
  IF Len(buf) = 0 THEN <<"nothing to delete">>
  ELSE IF o.err # "nil" THEN <<o.err>>
  ELSE [n \in 1..Cardinality(o.bad) |-> "DeleteError"]

\* the bucket after a bulk-delete request req answered with outcome o
DeleteObjectsImpl(b, req, o) ==
  IF o.err # "nil" THEN b ELSE b \ (Range(req) \ o.bad)

------------------------------------------------------------------------------
(* One flush of caller c's buffer buf: the request it sends, if any *)

Flush(c, buf) ==
  IF Len(buf) = 0
  THEN \* "nothing to delete": no request is sent
       UNCHANGED <<bucket, lastReq, nReq, sentBefore, failedOps, faults>>
  ELSE \E o \in DeleteOutcomes(buf, faults < MaxFaults) :
         /\ bucket' = DeleteObjectsImpl(bucket, buf, o)
         /\ lastReq' = [lastReq EXCEPT ![c] = buf]
         /\ nReq' = [nReq EXCEPT ![c] = @ + 1]
         /\ sentBefore' = [sentBefore EXCEPT ![c] = @ \cup Range(lastReq[c])]
         /\ failedOps' = [failedOps EXCEPT ![c] = @ + Len(flushDeletes(buf, o))]
         /\ faults' = IF o.err = "RequestFailed" \/ o.bad # {} THEN faults + 1 ELSE faults

------------------------------------------------------------------------------
(* S3FS.deleteListImpl *)

\* entry: errs, the flag, the buffer
DelBegin(c) ==
  /\ UNCHANGED <<copyvars, localvars, restvars>>
  /\ op[c] = "DeleteObjects" /\ pc[c] = "idle"
  /\ ignoreContinuationOnWalk' = TRUE
  /\ errs' = [errs EXCEPT ![c] = <<>>]
  /\ delBuffer' = [delBuffer EXCEPT ![c] = <<>>]
  /\ idx' = [idx EXCEPT ![c] = 1]
  /\ pc' = [pc EXCEPT ![c] = "probe"]
  /\ UNCHANGED <<bucket, bucket0, maxKeys, op, objects, ret, prefix, token, resp, pos,
                 count, visitLog, lastReq, nReq, sentBefore, failedOps, faults>>

\* the head of the range loop: GetObjectInfo, then Walk or append
DelProbe(c) ==
  /\ UNCHANGED <<copyvars, localvars, restvars>>
  /\ op[c] = "DeleteObjects" /\ pc[c] = "probe" /\ idx[c] <= Len(objects[c])
  /\ \E fault \in {FALSE} \cup {f \in {TRUE} : faults < MaxFaults} :
       LET key  == objects[c][idx[c]]
           info == S3GetObjectInfo(bucket, key, fault)
       IN /\ faults' = IF fault THEN faults + 1 ELSE faults
          /\ IF info.err \notin {"nil", "FileNotFoundError"}
             THEN \* return []error{err1}, err1 the nil *FileNotFoundError
                  /\ ret' = [ret EXCEPT ![c] = <<"nilFileNotFoundError">>]
                  /\ ignoreContinuationOnWalk' = FALSE
                  /\ pc' = [pc EXCEPT ![c] = "done"]
                  /\ UNCHANGED <<delBuffer, prefix, token, resp, pos, count>>
             ELSE IF IsDir(info)
             THEN /\ prefix' = [prefix EXCEPT ![c] = key]
                  /\ token' = [token EXCEPT ![c] = Nil]
                  /\ count' = [count EXCEPT ![c] = 0]
                  /\ pc' = [pc EXCEPT ![c] = "list"]
                  /\ UNCHANGED <<delBuffer, ret, ignoreContinuationOnWalk, resp, pos>>
             ELSE /\ delBuffer' = [delBuffer EXCEPT ![c] = Append(@, key)]
                  /\ pc' = [pc EXCEPT ![c] = "flush"]
                  /\ UNCHANGED <<ret, ignoreContinuationOnWalk, prefix, token,
                                 resp, pos, count>>
  /\ UNCHANGED <<bucket, bucket0, maxKeys, op, objects, idx, errs, visitLog, lastReq,
                 nReq, sentBefore, failedOps>>

\* "flush any remaining deletes" at the end of one input path
DelFlush(c) ==
  /\ UNCHANGED <<copyvars, localvars, restvars>>
  /\ op[c] = "DeleteObjects" /\ pc[c] = "flush"
  /\ Flush(c, delBuffer[c])
  /\ idx' = [idx EXCEPT ![c] = @ + 1]
  /\ pc' = [pc EXCEPT ![c] = "probe"]
  /\ UNCHANGED <<bucket0, maxKeys, ignoreContinuationOnWalk, op, objects, delBuffer,
                 errs, ret, prefix, token, resp, pos, count, visitLog>>

\* the range loop is over: return errs, the deferred function clears the flag
DelReturn(c) ==
  /\ UNCHANGED <<copyvars, localvars, restvars>>
  /\ op[c] = "DeleteObjects" /\ pc[c] = "probe" /\ idx[c] > Len(objects[c])
  /\ ret' = [ret EXCEPT ![c] = errs[c]]
  /\ ignoreContinuationOnWalk' = FALSE
  /\ pc' = [pc EXCEPT ![c] = "done"]
  /\ UNCHANGED <<bucket, bucket0, maxKeys, op, objects, idx, delBuffer, errs, prefix,
                 token, resp, pos, count, visitLog, lastReq, nReq, sentBefore,
                 failedOps, faults>>

------------------------------------------------------------------------------
(* S3FS.Walk, run by a caller or inside deleteListImpl *)

\* a caller enters Walk on the prefix
WalkBegin(c) ==
  /\ UNCHANGED <<copyvars, localvars, restvars>>
  /\ op[c] = "Walk" /\ pc[c] = "idle"
  /\ prefix' = [prefix EXCEPT ![c] = dirPath]
  /\ token' = [token EXCEPT ![c] = Nil]
  /\ count' = [count EXCEPT ![c] = 0]
  /\ pc' = [pc EXCEPT ![c] = "list"]
  /\ UNCHANGED <<bucket, bucket0, maxKeys, ignoreContinuationOnWalk, op, objects, idx,
                 delBuffer, errs, ret, resp, pos, visitLog, lastReq, nReq,
                 sentBefore, failedOps, faults>>

\* where Walk's return takes caller c
AfterWalk(c) == IF op[c] = "DeleteObjects" THEN "flush" ELSE "done"

\* the buffer of caller c holds all the entries the model records: what the
\* visitor appends from here on is in a request of more than 1000 keys, which
\* the service refuses whatever it holds
Overfull(c) == Len(delBuffer[c]) >= maxDelBufferSize + MaxBufferExcess

\* the head of the listing loop: ListObjectsV2, or its error
WalkList(c) ==
  /\ UNCHANGED <<copyvars, localvars, restvars>>
  /\ pc[c] = "list"
  /\ op[c] = "Walk" => count[c] < MaxWalkPages
  /\ \E fault \in {FALSE} \cup {f \in {TRUE} : faults < MaxFaults} :
       IF fault
       THEN /\ faults' = faults + 1
            /\ pc' = [pc EXCEPT ![c] = AfterWalk(c)]
            /\ ret' = [ret EXCEPT ![c] = IF op[c] = "Walk" THEN <<"ListFailed">> ELSE @]
            /\ UNCHANGED <<resp, pos>>
       ELSE /\ resp' = [resp EXCEPT ![c] = ListObjectsV2(bucket, prefix[c], token[c], maxKeys)]
            /\ pos' = [pos EXCEPT ![c] = 1]
            /\ pc' = [pc EXCEPT ![c] = "visit"]
            /\ UNCHANGED <<faults, ret>>
  /\ UNCHANGED <<bucket, bucket0, maxKeys, ignoreContinuationOnWalk, op, objects, idx,
                 delBuffer, errs, prefix, token, count, visitLog, lastReq, nReq,
                 sentBefore, failedOps>>

\* one content of the page goes to the visitor function
WalkVisit(c) ==
  /\ UNCHANGED <<copyvars, localvars, putvars, retryvars, listvars, lwalkvars,
               rangevars, morevars>>
  /\ pc[c] = "visit" /\ pos[c] <= Len(resp[c].Contents)
  /\ LET key == resp[c].Contents[pos[c]]
     IN IF op[c] = "DeleteObjects"
        THEN \* the closure of deleteListImpl
             IF Overfull(c)
             THEN \* one more key appended, one more request refused
                  UNCHANGED <<delBuffer, bucket, lastReq, nReq, sentBefore, failedOps,
                              faults, visitLog, visitorErrs>>
             ELSE LET buf == Append(delBuffer[c], key)
                  IN /\ delBuffer' = [delBuffer EXCEPT ![c] = buf]
                     /\ IF Len(buf) >= maxDelBufferSize
                        THEN Flush(c, buf)
                        ELSE UNCHANGED <<bucket, lastReq, nReq, sentBefore, failedOps, faults>>
                     /\ UNCHANGED <<visitLog, visitorErrs>>
        ELSE \* the caller's visitor function; its error is logged
             /\ visitLog' = [visitLog EXCEPT ![c] = Append(@, key)]
             /\ \E failed \in BOOLEAN :
                  visitorErrs' = [visitorErrs EXCEPT ![c] = IF failed THEN @ + 1 ELSE @]
             /\ UNCHANGED <<bucket, delBuffer, lastReq, nReq, sentBefore, failedOps, faults>>
  /\ pos' = [pos EXCEPT ![c] = @ + 1]
  /\ UNCHANGED <<bucket0, maxKeys, ignoreContinuationOnWalk, op, pc, objects, idx, errs,
                 ret, prefix, token, resp, count>>

\* a Walk that never moves its continuation token
ContinuationKept(ignore, cur, next) == cur

\* the token of Walk's next request: the page's NextContinuationToken unless
\* ignoreContinuationOnWalk is set
Continuation(ignore, cur, next) == IF ~ignore THEN next ELSE cur

\* the page is done: the continuation token, the truncation test, count++
WalkNext(c) ==
  /\ UNCHANGED <<copyvars, localvars, restvars>>
  /\ pc[c] = "visit" /\ pos[c] > Len(resp[c].Contents)
  /\ token' = [token EXCEPT ![c] = Continuation(ignoreContinuationOnWalk, @,
                                                 resp[c].NextContinuationToken)]
  /\ count' = [count EXCEPT ![c] = IF op[c] = "DeleteObjects" /\ Overfull(c) THEN @ ELSE @ + 1]
  /\ IF resp[c].IsTruncated
     THEN /\ pc' = [pc EXCEPT ![c] = "list"]
          /\ UNCHANGED ret
     ELSE /\ pc' = [pc EXCEPT ![c] = AfterWalk(c)]
          /\ ret' = [ret EXCEPT ![c] = IF op[c] = "Walk" THEN <<>> ELSE @]
  /\ UNCHANGED <<bucket, bucket0, maxKeys, ignoreContinuationOnWalk, op, objects, idx,
                 delBuffer, errs, prefix, resp, pos, visitLog, lastReq, nReq,
                 sentBefore, failedOps, faults>>


------------------------------------------------------------------------------
(* S3FS.CopyObject and S3FS.copyPartsTo *)

\* the backend's ETag for the bytes start..end of the source, in quotes
PartETag(start, end) == [quoted |-> TRUE, body |-> <<start, end>>]

\* strings.Trim(etag, "\"")
TrimQuotes(etag) == [etag EXCEPT !.quoted = FALSE]

\* buildCopySourceRange: "bytes=<start>-<end>"
buildCopySourceRange(start, objectSize) ==
  LET end == start + max_copy_chunk_size - 1
  IN [unit |-> "bytes",
      start |-> start,
      end |-> IF end > objectSize THEN objectSize - 1 ELSE end]

\* a copyPartsTo that numbers a part after partNumber++
CompletedPartAfterIncrement(etag, partNum) ==
  [ETag |-> TrimQuotes(etag), PartNumber |-> partNum + 1]

\* types.CompletedPart built from a part-copy response
CompletedPart(etag, partNum) ==
  [ETag |-> TrimQuotes(etag), PartNumber |-> partNum]

\* CopyObject up to its branch on the source size
CopyStart ==
  /\ cpPc = "idle"
  /\ \E out \in {"ok"} \cup {f \in {"NoSuchKey", "AccessDenied", "CopyFailed"} : faults < MaxFaults} :
       /\ faults' = IF out = "ok" THEN faults ELSE faults + 1
       /\ IF out \in {"NoSuchKey", "AccessDenied"}
          THEN \* GetObjectInfo failed
               /\ copyErr' = IF out = "NoSuchKey" THEN "FileNotFoundError" ELSE out
               /\ cpPc' = "done"
          ELSE IF fileSize < max_put_object_copy_size
          THEN \* one server-side s3client.CopyObject; its error is returned
               /\ copyErr' = IF out = "ok" THEN "nil" ELSE out
               /\ cpPc' = "done"
          ELSE /\ out = "ok"
               /\ cpPc' = "create"
               /\ UNCHANGED copyErr
  /\ UNCHANGED <<fileSize, uploadId, i, partNumber, parts, partRequests, partTags,
                 partFailed, abortRequests, completeRequests, partsErr>>
  /\ UNCHANGED <<bucket, bucket0, maxKeys, ignoreContinuationOnWalk, op, pc, objects, idx,
                 delBuffer, errs, ret, prefix, token, resp, pos, count, visitLog,
                 lastReq, nReq, sentBefore, failedOps>>
  /\ UNCHANGED <<localvars, restvars>>

\* what CopyObject returns after copyPartsTo: err of GetObjectInfo, which is nil
AfterCopyParts == "nil"

\* copyPartsTo: CreateMultipartUpload
CreateUpload ==
  /\ cpPc = "create"
  /\ \E out \in {"ok"} \cup {f \in {"CreateFailed", "NoUploadId"} : faults < MaxFaults} :
       /\ faults' = IF out = "ok" THEN faults ELSE faults + 1
       /\ IF out = "ok"
          THEN /\ uploadId' = "open"
               /\ i' = 0
               /\ partNumber' = 1
               /\ parts' = <<>>
               /\ cpPc' = "part"
               /\ UNCHANGED <<partsErr, copyErr>>
          ELSE /\ partsErr' = out
               /\ copyErr' = AfterCopyParts
               /\ cpPc' = "done"
               /\ UNCHANGED <<uploadId, i, partNumber, parts>>
  /\ UNCHANGED <<fileSize, partRequests, partTags, partFailed, abortRequests,
                 completeRequests>>
  /\ UNCHANGED <<bucket, bucket0, maxKeys, ignoreContinuationOnWalk, op, pc, objects, idx,
                 delBuffer, errs, ret, prefix, token, resp, pos, count, visitLog,
                 lastReq, nReq, sentBefore, failedOps>>
  /\ UNCHANGED <<localvars, restvars>>

\* copyPartsTo: one iteration of the part loop
CopyPart ==
  /\ cpPc = "part" /\ i < fileSize
  /\ LET copyRange == buildCopySourceRange(i, fileSize)
     IN /\ partRequests' = Append(partRequests, [PartNumber |-> partNumber, Range |-> copyRange])
        /\ \E ok \in {TRUE} \cup {f \in {FALSE} : faults < MaxFaults} :
             IF ok
             THEN LET etag == PartETag(copyRange.start, copyRange.end)
                  IN /\ partTags' = Append(partTags, etag)
                     /\ parts' = Append(parts, CompletedPart(etag, partNumber))
                     /\ partNumber' = partNumber + 1
                     /\ i' = i + max_copy_chunk_size
                     /\ UNCHANGED <<cpPc, partFailed, abortRequests, partsErr,
                                    copyErr, uploadId, faults>>
             ELSE \* the abort names only the UploadId; its result is ignored
                  /\ faults' = faults + 1
                  /\ partFailed' = TRUE
                  /\ abortRequests' = abortRequests + 1
                  /\ \E aborted \in BOOLEAN :
                       uploadId' = IF aborted THEN "aborted" ELSE uploadId
                  /\ partsErr' = "PartFailed"
                  /\ copyErr' = AfterCopyParts
                  /\ cpPc' = "done"
                  /\ UNCHANGED <<partTags, parts, partNumber, i>>
  /\ UNCHANGED <<fileSize, completeRequests>>
  /\ UNCHANGED <<bucket, bucket0, maxKeys, ignoreContinuationOnWalk, op, pc, objects, idx,
                 delBuffer, errs, ret, prefix, token, resp, pos, count, visitLog,
                 lastReq, nReq, sentBefore, failedOps>>
  /\ UNCHANGED <<localvars, restvars>>

\* copyPartsTo: CompleteMultipartUpload with the parts collected
CompleteUpload ==
  /\ cpPc = "part" /\ i >= fileSize
  /\ completeRequests' = Append(completeRequests, parts)
  /\ \E ok \in {TRUE} \cup {f \in {FALSE} : faults < MaxFaults} :
       /\ faults' = IF ok THEN faults ELSE faults + 1
       /\ uploadId' = IF ok THEN "completed" ELSE uploadId
       /\ partsErr' = IF ok THEN "nil" ELSE "CompleteFailed"
  /\ copyErr' = AfterCopyParts
  /\ cpPc' = "done"
  /\ UNCHANGED <<fileSize, i, partNumber, parts, partRequests, partTags,
                 partFailed, abortRequests>>
  /\ UNCHANGED <<bucket, bucket0, maxKeys, ignoreContinuationOnWalk, op, pc, objects, idx,
                 delBuffer, errs, ret, prefix, token, resp, pos, count, visitLog,
                 lastReq, nReq, sentBefore, failedOps>>
  /\ UNCHANGED <<localvars, restvars>>

------------------------------------------------------------------------------
(* The local filesystem, as the os package shows it *)

LPaths == {"a", "b"}

Absent == [kind |-> "absent", data |-> <<>>, denied |-> FALSE]

\* the error of os.Stat, os.Open, os.Remove on entry e: always a *fs.PathError
PathErrorOf(e) ==
  IF e.denied THEN [type |-> "PathError", errno |-> "EACCES"]
  ELSE IF e.kind = "absent" THEN [type |-> "PathError", errno |-> "ENOENT"]
  ELSE [type |-> "nil", errno |-> "none"]

\* errors.As(err, &pathError)
AsPathError(err) == err.type = "PathError"

\* the error value a call hands back: the not-found kind, nil, or the errno
Surface(err, notFound) ==
  IF notFound THEN "FileNotFoundError"
  ELSE IF err.type = "nil" THEN "nil" ELSE err.errno

\* a GetObjectInfo that hands back the error of os.Stat as it is
BlockGetObjectInfoAsIs(e) ==
  LET err == PathErrorOf(e)
  IN [cause |-> err.errno, err |-> Surface(err, FALSE)]

\* BlockFS.GetObjectInfo
BlockGetObjectInfo(e) ==
  LET err == PathErrorOf(e)
  IN [cause |-> err.errno, err |-> Surface(err, AsPathError(err))]

\* BlockFS.GetObject without a range: os.Open and the error conversion
BlockGetObject(e) ==
  LET err == PathErrorOf(e)
  IN [cause |-> err.errno, err |-> Surface(err, AsPathError(err))]

\* the causes a failed S3 lookup can have
S3Causes == {"none", "NoSuchKey", "AccessDenied", "SlowDown"}

\* S3FS.GetObject, from the cause the backend reported
S3GetObjectErr(cause) ==
  IF cause # "none"
  THEN IF AsNoSuchKey(cause) THEN "FileNotFoundError" ELSE cause
  ELSE "nil"

\* File.WriteAt(data, off) on content
WriteAt(content, data, off) ==
  IF Len(data) = 0 THEN content
  ELSE [n \in 1..(IF Len(content) > off + Len(data) THEN Len(content) ELSE off + Len(data)) |->
          IF n > off /\ n <= off + Len(data) THEN data[n - off]
          ELSE IF n <= Len(content) THEN content[n]
          ELSE 0]

\* NewFileStore for a BlockFSConfig: the default is assigned to the local
\* config, the store is built from fsconfig
NewFileStore(cfgChunkSize) ==
  LET config == IF cfgChunkSize = 0 THEN defaultChunkSize ELSE cfgChunkSize
  IN cfgChunkSize

\* a WriteChunk that counts its chunks from one
ChunkOffsetFromOne(ChunkId, chunkSize) == (ChunkId + 1) * chunkSize

\* the byte offset WriteChunk writes chunk ChunkId at
ChunkOffset(ChunkId, chunkSize) == ChunkId * chunkSize

\* the data of a chunk: len bytes, each naming the chunk
ChunkData(ChunkId, len) == [n \in 1..len |-> ChunkId + 1]

ChunkIds == 0..2

LocalFrame == UNCHANGED <<s3vars, copyvars, restvars>>

------------------------------------------------------------------------------
(* The local multipart emulation *)

\* BlockFS.InitializeObjectUpload on path "a"
InitializeObjectUpload ==
  /\ session = 0 /\ ~completed
  /\ fs["a"].kind # "dir" /\ ~fs["a"].denied
  /\ initFresh' = (fs["a"].kind = "absent")
  /\ fs' = [fs EXCEPT !["a"] = [kind |-> "file", data |-> <<>>, denied |-> FALSE]]
  /\ session' = 1
  /\ written' = <<>>
  /\ UNCHANGED <<ChunkSize, nWrites, completed, lookup, ldPc, ldPaths, ldIdx,
                 ldErr, ldRet, ldFailed, progress>>
  /\ LocalFrame

\* BlockFS.WriteChunk on path "a"
WriteChunk ==
  /\ ~completed /\ nWrites < MaxWrites
  /\ fs["a"].kind # "dir" /\ ~fs["a"].denied
  /\ \E id \in ChunkIds, len \in 0..MaxChunkBytes :
       LET data == ChunkData(id, len)
       IN /\ fs' = [fs EXCEPT !["a"] =
                      [kind |-> "file",
                       data |-> WriteAt(fs["a"].data, data, ChunkOffset(id, ChunkSize)),
                       denied |-> FALSE]]
          /\ written' = Append(written, [ChunkId |-> id, Data |-> data])
  /\ nWrites' = nWrites + 1
  /\ UNCHANGED <<ChunkSize, session, initFresh, completed, lookup, ldPc, ldPaths,
                 ldIdx, ldErr, ldRet, ldFailed, progress>>
  /\ LocalFrame

\* BlockFS.CompleteObjectUpload
CompleteObjectUpload ==
  /\ session # 0 /\ ~completed
  /\ completed' = TRUE
  /\ UNCHANGED <<fs, ChunkSize, session, initFresh, written, nWrites, lookup,
                 ldPc, ldPaths, ldIdx, ldErr, ldRet, ldFailed, progress>>
  /\ LocalFrame

------------------------------------------------------------------------------
(* Lookups on both backends *)

LocalGetObjectInfo ==
  /\ lookup.local.calls < MaxLookups
  /\ \E p \in LPaths :
       lookup' = [lookup EXCEPT !.local =
                    [call |-> "GetObjectInfo", calls |-> @.calls + 1] @@ BlockGetObjectInfo(fs[p])]
  /\ UNCHANGED <<fs, ChunkSize, session, initFresh, written, nWrites, completed,
                 ldPc, ldPaths, ldIdx, ldErr, ldRet, ldFailed, progress>>
  /\ LocalFrame

LocalGetObject ==
  /\ lookup.local.calls < MaxLookups
  /\ \E p \in LPaths :
       lookup' = [lookup EXCEPT !.local =
                    [call |-> "GetObject", calls |-> @.calls + 1] @@ BlockGetObject(fs[p])]
  /\ UNCHANGED <<fs, ChunkSize, session, initFresh, written, nWrites, completed,
                 ldPc, ldPaths, ldIdx, ldErr, ldRet, ldFailed, progress>>
  /\ LocalFrame

\* what the S3 backend reports for a lookup of key
S3LookupCauses(key) ==
  (IF key \in bucket THEN {"none"} ELSE {"NoSuchKey"}) \cup {"AccessDenied", "SlowDown"}

S3GetObjectInfoCall ==
  /\ lookup.s3.calls < MaxLookups
  /\ \E key \in {fileKey, absentPath} : \E cause \in S3LookupCauses(key) :
       lookup' = [lookup EXCEPT !.s3 =
                    [call |-> "GetObjectInfo", cause |-> cause,
                     err |-> S3GetObjectInfoErr(cause), calls |-> @.calls + 1]]
  /\ UNCHANGED <<fs, ChunkSize, session, initFresh, written, nWrites, completed,
                 ldPc, ldPaths, ldIdx, ldErr, ldRet, ldFailed, progress>>
  /\ LocalFrame

S3GetObjectCall ==
  /\ lookup.s3.calls < MaxLookups
  /\ \E key \in {fileKey, absentPath} : \E cause \in S3LookupCauses(key) :
       lookup' = [lookup EXCEPT !.s3 =
                    [call |-> "GetObject", cause |-> cause,
                     err |-> S3GetObjectErr(cause), calls |-> @.calls + 1]]
  /\ UNCHANGED <<fs, ChunkSize, session, initFresh, written, nWrites, completed,
                 ldPc, ldPaths, ldIdx, ldErr, ldRet, ldFailed, progress>>
  /\ LocalFrame

------------------------------------------------------------------------------
(* BlockFS.DeleteObjects *)

\* isDir(path)
isDir(e) == PathErrorOf(e).type = "nil" /\ e.kind = "dir"

\* a progress event that counts the paths from one
ProgressDataFromOne(n, p) == [Index |-> n + 1, Max |-> -1, Value |-> p]

\* the ProgressData that DeleteObjects hands to doi.Progress for the path p
\* at index n of the input
ProgressData(n, p) == [Index |-> n, Max |-> -1, Value |-> p]

\* one iteration of the range loop: RemoveAll or Remove, then the progress event
LocalDeleteStep ==
  /\ ldPc = "run" /\ ldIdx <= Len(ldPaths)
  /\ LET p   == ldPaths[ldIdx]
         err == IF isDir(fs[p]) THEN [type |-> "nil", errno |-> "none"]
                ELSE PathErrorOf(fs[p])
     IN /\ ldErr' = Surface(err, FALSE)
        /\ fs' = IF err.type = "nil" THEN [fs EXCEPT ![p] = Absent] ELSE fs
        /\ ldFailed' = IF err.type = "nil" THEN ldFailed ELSE ldFailed + 1
        /\ progress' = Append(progress, ProgressData(ldIdx - 1, p))
  /\ ldIdx' = ldIdx + 1
  /\ UNCHANGED <<ChunkSize, session, initFresh, written, nWrites, completed,
                 lookup, ldPc, ldPaths, ldRet>>
  /\ LocalFrame

\* return []error{err}
LocalDeleteReturn ==
  /\ ldPc = "run" /\ ldIdx > Len(ldPaths)
  /\ ldRet' = <<ldErr>>
  /\ ldPc' = "done"
  /\ UNCHANGED <<fs, ChunkSize, session, initFresh, written, nWrites, completed,
                 lookup, ldPaths, ldIdx, ldErr, ldFailed, progress>>
  /\ LocalFrame

------------------------------------------------------------------------------
(* BlockFS.PutObject *)

\* the directory of the destinations, the source file, the destinations
PutDir == "p"
PutSrc == "src"
PutDests == {"d1", "d2", "d3"}
PutPaths == {PutDir, PutSrc} \cup PutDests

Directory == [kind |-> "dir", data |-> <<>>, denied |-> FALSE]

FileOf(bytes) == [kind |-> "file", data |-> bytes, denied |-> FALSE]

\* the payloads: 1, 2, ..., len
Payloads == {[n \in 1..len |-> n] : len \in 0..MaxPayloadLen}

\* what a destination may hold before the calls: longer than every payload
OldContent == [n \in 1..(MaxPayloadLen + 1) |-> 7]

\* a field of ObjectSource that is nil, or holds bytes
NilBytes == [nil |-> TRUE, bytes |-> <<>>]
Bytes(b) == [nil |-> FALSE, bytes |-> b]

\* the ObjectSource of each source kind for payload b
SourceOf(kind, b) ==
  [Data     |-> IF kind = "Data" THEN Bytes(b) ELSE NilBytes,
   Filepath |-> IF kind = "Filepath" THEN PutSrc ELSE "",
   Reader   |-> IF kind = "Reader" THEN Bytes(b) ELSE NilBytes]

\* FileOperationOutput{}: the ETag is the empty string
EmptyOutput == [nil |-> FALSE, ETag |-> [set |-> FALSE, of |-> <<>>]]
NilOutput == [nil |-> TRUE, ETag |-> [set |-> FALSE, of |-> <<>>]]

\* the hexadecimal MD5 of bytes: one value per byte sequence
Md5Hex(bytes) == [set |-> TRUE, of |-> bytes]

\* getFileMd5(f): the hash of what f holds from its file offset to its end
getFileMd5(content, offset) == Md5Hex(SubSeq(content, offset + 1, Len(content)))

\* a source reader that has lost its first byte
PutSourceTail(files, source) ==
  IF ~source.Data.nil THEN [err |-> "nil", nil |-> FALSE, bytes |-> source.Data.bytes]
  ELSE IF source.Filepath # ""
  THEN [err |-> Surface(PathErrorOf(files[source.Filepath]), FALSE), nil |-> FALSE,
        bytes |-> files[source.Filepath].data]
  ELSE [err |-> "nil", nil |-> source.Reader.nil,
        bytes |-> SubSeq(source.Reader.bytes, 2, Len(source.Reader.bytes))]

\* PutObject's switch over the source: the bytes its reader src yields; src
\* stays nil when no case matches
PutSource(files, source) ==
  IF ~source.Data.nil THEN [err |-> "nil", nil |-> FALSE, bytes |-> source.Data.bytes]
  ELSE IF source.Filepath # ""
  THEN [err |-> Surface(PathErrorOf(files[source.Filepath]), FALSE), nil |-> FALSE,
        bytes |-> files[source.Filepath].data]
  ELSE [err |-> "nil", nil |-> source.Reader.nil, bytes |-> source.Reader.bytes]

\* PutObject from os.OpenFile on: O_RDWR|O_CREATE without truncation, io.Copy
\* from the start of the file, getFileMd5 on the same handle
PutWrite(files, bytes, dest) ==
  IF files[PutDir].kind # "dir"
  THEN [fs |-> files, out |-> NilOutput, err |-> "ENOENT"]
  ELSE LET old     == IF files[dest].kind = "file" THEN files[dest].data ELSE <<>>
           content == WriteAt(old, bytes, 0)
       IN [fs  |-> [files EXCEPT ![dest] = FileOf(content)],
           out |-> [nil |-> FALSE, ETag |-> getFileMd5(content, Len(bytes))],
           err |-> "nil"]

\* PutObject from os.OpenFile on with a nil src: the destination is opened
\* (and created), then io.Copy calls Read on the nil reader and the call
\* panics instead of returning
PutWriteNil(files, dest) ==
  IF files[PutDir].kind # "dir"
  THEN [fs |-> files, out |-> NilOutput, err |-> "ENOENT"]
  ELSE [fs  |-> IF files[dest].kind = "file" THEN files
                ELSE [files EXCEPT ![dest] = FileOf(<<>>)],
        out |-> NilOutput,
        err |-> "panic"]

\* a PutObject without the case of the empty buffer
PutObjectNoEmptyCase(files, source, dest) ==
  LET src == PutSource(files, source)
  IN IF src.err # "nil"
     THEN [fs |-> files, out |-> NilOutput, err |-> src.err]
     ELSE IF src.nil THEN PutWriteNil(files, dest)
     ELSE PutWrite(files, src.bytes, dest)

\* BlockFS.PutObject
PutObject(files, source, dest) ==
  IF ~source.Data.nil /\ Len(source.Data.bytes) = 0
  THEN \* os.MkdirAll(filepath.Dir(poi.Dest.Path)), return &foo
       [fs |-> [files EXCEPT ![PutDir] = Directory], out |-> EmptyOutput, err |-> "nil"]
  ELSE LET src == PutSource(files, source)
       IN IF src.err # "nil"
          THEN [fs |-> files, out |-> NilOutput, err |-> src.err]
          ELSE IF src.nil THEN PutWriteNil(files, dest)
          ELSE PutWrite(files, src.bytes, dest)

\* ObjectSource.GetReader
GetReader(files, source) ==
  IF ~source.Reader.nil THEN [err |-> "nil", bytes |-> source.Reader.bytes]
  ELSE IF source.Filepath # ""
  THEN [err |-> Surface(PathErrorOf(files[source.Filepath]), FALSE),
        bytes |-> files[source.Filepath].data]
  ELSE IF ~source.Data.nil THEN [err |-> "nil", bytes |-> source.Data.bytes]
  ELSE [err |-> "invalid objectsource configuration", bytes |-> <<>>]

\* S3FS.PutObject; the service stores the body and answers with its ETag
S3PutObject(store, files, source, key) ==
  LET reader == GetReader(files, source)
  IN  IF reader.err # "nil"
      THEN [store |-> store, out |-> NilOutput,
            err |-> "Unable to get the Source Reader"]
      ELSE [store |-> [store EXCEPT ![key] = FileOf(reader.bytes)],
            out |-> [nil |-> FALSE, ETag |-> Md5Hex(reader.bytes)], err |-> "nil"]

SourceKinds == {"Data", "Filepath", "Reader", "None"}

SrcFrame ==
  UNCHANGED <<s3vars, copyvars, putvars, retryvars, listvars, visitvars, lwalkvars,
              rangevars, signvars, sessvars, ldirvars, lockvars, getvars>>

PutRecord(kind, dest, before, after, r) ==
  [kind |-> kind, dest |-> dest, err |-> r.err,
   created |-> (before.kind = "absent" /\ after.kind # "absent"),
   modified |-> (before.kind # "absent" /\ after # before),
   nilOut |-> r.out.nil]

\* one PutObject call on the local store with any ObjectSource
LocalPutObjectCall ==
  /\ srcOut["local"].kind = "none"
  /\ \E kind \in SourceKinds, dest \in PutDests :
       LET r == PutObject(fs, SourceOf(kind, putPayload), dest)
       IN  /\ fs' = r.fs
           /\ srcOut' = [srcOut EXCEPT !["local"] =
                           PutRecord(kind, dest, fs[dest], r.fs[dest], r)]
  /\ UNCHANGED <<ChunkSize, session, initFresh, written, nWrites, completed,
                 lookup, ldPc, ldPaths, ldIdx, ldErr, ldRet, ldFailed, progress>>
  /\ UNCHANGED s3Store
  /\ SrcFrame

\* one PutObject call on the S3 store with any ObjectSource
S3PutObjectCall ==
  /\ srcOut["s3"].kind = "none"
  /\ \E kind \in SourceKinds, dest \in PutDests :
       LET r == S3PutObject(s3Store, fs, SourceOf(kind, putPayload), dest)
       IN  /\ s3Store' = r.store
           /\ srcOut' = [srcOut EXCEPT !["s3"] =
                           PutRecord(kind, dest, s3Store[dest], r.store[dest], r)]
  /\ UNCHANGED localvars
  /\ SrcFrame

\* one PutObject call of the payload through one source kind
PutObjectCall ==
  /\ Len(putLog) < MaxPuts
  /\ \E kind \in {"Data", "Filepath", "Reader"}, dest \in PutDests :
       LET r == PutObject(fs, SourceOf(kind, putPayload), dest)
       IN /\ fs' = r.fs
          /\ putLog' = Append(putLog,
                              [kind |-> kind, dest |-> dest,
                               before |-> fs[dest], dirBefore |-> fs[PutDir],
                               after |-> r.fs[dest], dirAfter |-> r.fs[PutDir],
                               out |-> r.out, err |-> r.err])
  /\ UNCHANGED <<ChunkSize, session, initFresh, written, nWrites, completed,
                 lookup, ldPc, ldPaths, ldIdx, ldErr, ldRet, ldFailed, progress>>
  /\ UNCHANGED <<s3vars, copyvars, putPayload, retryvars, listvars, visitvars, lwalkvars,
               rangevars, morevars>>

\* BlockFS.CopyObject: os.Open of the source, os.Create of the destination
\* (which truncates it), io.Copy
BlockCopyObject(files, from, dest) ==
  IF files[from].kind = "absent" \/ files[from].denied
  THEN [fs |-> files, err |-> Surface(PathErrorOf(files[from]), FALSE)]
  ELSE IF files[PutDir].kind # "dir" THEN [fs |-> files, err |-> "ENOENT"]
  ELSE [fs |-> [files EXCEPT ![dest] = FileOf(WriteAt(<<>>, files[from].data, 0))],
        err |-> "nil"]

\* one CopyObject call from PutSrc
LocalCopyObjectCall ==
  /\ Len(putLog) < MaxPuts
  /\ \E dest \in PutDests :
       LET r == BlockCopyObject(fs, PutSrc, dest)
       IN /\ fs' = r.fs
          /\ putLog' = Append(putLog,
                              [kind |-> "Copy", dest |-> dest,
                               before |-> fs[dest], dirBefore |-> fs[PutDir],
                               after |-> r.fs[dest], dirAfter |-> r.fs[PutDir],
                               out |-> NilOutput, err |-> r.err])
  /\ UNCHANGED <<ChunkSize, session, initFresh, written, nWrites, completed,
                 lookup, ldPc, ldPaths, ldIdx, ldErr, ldRet, ldFailed, progress>>
  /\ UNCHANGED <<s3vars, copyvars, putPayload, retryvars, listvars, visitvars, lwalkvars,
               rangevars, morevars>>

------------------------------------------------------------------------------
(* Specification of one DeleteObjects call on an S3 store *)

PathKinds == {fileKey, dirPath, absentPath}

PathLists == UNION {[1..n -> PathKinds] : n \in 1..MaxPaths}

\* the numbers of keys under dirPath the model starts from
KeyCounts == {0, 1, SmallPage + 1} \cup (maxDelBufferSize..MaxKeyCount)

NoResp == [Contents |-> <<>>, IsTruncated |-> FALSE, NextContinuationToken |-> Nil]

InitS3(ops, inputs, n, cfgMaxKeys) ==
  /\ bucket = {fileKey} \cup (1..n)
  /\ bucket0 = bucket
  /\ maxKeys = S3MaxKeys(cfgMaxKeys)
  /\ ignoreContinuationOnWalk = FALSE
  /\ op = ops
  /\ pc = [c \in Callers |-> "idle"]
  /\ objects = inputs
  /\ idx = [c \in Callers |-> 1]
  /\ delBuffer = [c \in Callers |-> <<>>]
  /\ errs = [c \in Callers |-> <<>>]
  /\ ret = [c \in Callers |-> <<>>]
  /\ prefix = [c \in Callers |-> Nil]
  /\ token = [c \in Callers |-> Nil]
  /\ resp = [c \in Callers |-> NoResp]
  /\ pos = [c \in Callers |-> 1]
  /\ count = [c \in Callers |-> 0]
  /\ visitLog = [c \in Callers |-> <<>>]
  /\ lastReq = [c \in Callers |-> <<>>]
  /\ nReq = [c \in Callers |-> 0]
  /\ sentBefore = [c \in Callers |-> {}]
  /\ failedOps = [c \in Callers |-> 0]
  /\ faults = 0

IdleS3 == InitS3([c \in Callers |-> "none"], [c \in Callers |-> <<>>], 0, 0)

InitCopy(size) ==
  /\ fileSize = size
  /\ cpPc = "idle"
  /\ uploadId = "none"
  /\ i = 0
  /\ partNumber = 0
  /\ parts = <<>>
  /\ partRequests = <<>>
  /\ partTags = <<>>
  /\ partFailed = FALSE
  /\ abortRequests = 0
  /\ completeRequests = <<>>
  /\ partsErr = "none"
  /\ copyErr = "none"

IdleCopy == InitCopy(0)

NoLookup == [call |-> "none", cause |-> "none", err |-> "none", calls |-> 0]

InitLocal(files, cfgChunkSize, paths) ==
  /\ fs = files
  /\ ChunkSize = NewFileStore(cfgChunkSize)
  /\ session = 0
  /\ initFresh = FALSE
  /\ written = <<>>
  /\ nWrites = 0
  /\ completed = FALSE
  /\ lookup = [local |-> NoLookup, s3 |-> NoLookup]
  /\ ldPc = IF paths = <<>> THEN "idle" ELSE "run"
  /\ ldPaths = paths
  /\ ldIdx = 1
  /\ ldErr = "nil"
  /\ ldRet = <<>>
  /\ ldFailed = 0
  /\ progress = <<>>

IdleLocal == InitLocal([p \in LPaths |-> Absent], 0, <<>>)

IdlePut == putPayload = <<>> /\ putLog = <<>>

NoPair == [t |-> 0, err |-> "none"]

InitSend(max) ==
  /\ MaxAttempts = max
  /\ attempts = 0
  /\ sendLog = <<>>
  /\ sendPc = "loop"
  /\ sendRet = NoPair

IdleRetry == InitSend(0)

NoListing == [nil |-> TRUE, err |-> "none", entries |-> <<>>]

InitList(input, pfx, match) ==
  /\ listInput = input
  /\ listPrefixSet = pfx
  /\ listMatch = match
  /\ listPc = "idle"
  /\ listMaxKeys = 0
  /\ listToken = Nil
  /\ listMore = FALSE
  /\ currentPage = 0
  /\ prefixes = <<>>
  /\ listObjects = <<>>
  /\ objcount = 0
  /\ listRet = NoListing

IdleList == InitList([Filter |-> FALSE, Size |-> 0, Page |-> 0], {}, {})

IdleVisit == visitorErrs = [c \in Callers |-> 0]

InitLocalWalk(n) ==
  /\ lwEntries = n
  /\ lwIdx = 1
  /\ lwVisited = <<>>
  /\ lwPc = IF n = 0 THEN "idle" ELSE "walk"
  /\ lwRet = "none"

IdleLocalWalk == InitLocalWalk(0)

NoRange == [r |-> [Unit |-> <<>>, Start |-> 0, End |-> 0], err |-> "none"]

InitParse(input) ==
  /\ rangeInput = input
  /\ rangePc = "call"
  /\ rangeOut = NoRange

IdleRange ==
  /\ rangeInput = <<>>
  /\ rangePc = "idle"
  /\ rangeOut = NoRange

NoUrl == [base |-> 0, RawQuery |-> <<>>]

InitSign(uri, key, exp, clock) ==
  /\ signUri = uri
  /\ signKey = key
  /\ signExp = exp
  /\ now = clock
  /\ clockSteps = 0
  /\ signPc = IF key = 0 THEN "idle" ELSE "call"
  /\ signedUrl = NoUrl
  /\ signErr = "none"
  /\ signedAt = 0
  /\ tampered = 0
  /\ verifyOut = "none"
  /\ everOk = FALSE

IdleSign == InitSign(NoUrl, 0, 0, 0)

Backends == {"local", "s3"}

InitSess(file) ==
  /\ sessIssued = [b \in Backends |-> {}]
  /\ sessFile = file
  /\ sessParts = {}
  /\ sessObjects = {}
  /\ sessLog = <<>>

IdleSess == InitSess([kind |-> "absent", data |-> <<>>, denied |-> FALSE])

NoListDir == [path |-> "", cause |-> "none", err |-> "none", objects |-> <<>>]

IdleListDir == listDirOut = NoListDir

NoPut == [kind |-> "none", dest |-> "", err |-> "none", created |-> FALSE,
          modified |-> FALSE, nilOut |-> TRUE]

InitSrc(store) ==
  /\ srcOut = [b \in Backends |-> NoPut]
  /\ s3Store = store

IdleSrc == InitSrc(<<>>)

\* the goroutines that call WriteChunk with the same ObjectPath
Writers == {1, 2}

NoChunk == [ChunkId |-> 0, Data |-> <<>>]

InitLock(file) ==
  /\ wcPc = [w \in Writers |-> "idle"]
  /\ wcArg = [w \in Writers |-> NoChunk]
  /\ wcMutex = [w \in Writers |-> 0]
  /\ wcAllocated = 0
  /\ wcHeld = {}
  /\ wcFile = file

IdleLock == InitLock([kind |-> "absent", data |-> <<>>, denied |-> FALSE])

NoGet == [called |-> FALSE, err |-> "none", nil |-> TRUE, body |-> <<>>]

InitGet(there, data, rng) ==
  /\ getThere = there
  /\ getData = data
  /\ getRange = rng
  /\ getOut = [b \in Backends |-> NoGet]

IdleGet == InitGet(FALSE, <<>>, <<>>)

IdleMore == IdleSign /\ IdleSess /\ IdleListDir /\ IdleSrc /\ IdleLock /\ IdleGet

IdleRest ==
  IdlePut /\ IdleRetry /\ IdleList /\ IdleVisit /\ IdleLocalWalk /\ IdleRange /\ IdleMore

InitDelete ==
  \E paths \in PathLists, n \in KeyCounts, cfgMaxKeys \in {0, SmallPage} :
    /\ IdleCopy /\ IdleLocal /\ IdleRest
    /\ n > SmallPage + 1 => cfgMaxKeys = 0
    /\ InitS3([c \in Callers |-> IF c = 1 THEN "DeleteObjects" ELSE "none"],
              [c \in Callers |-> IF c = 1 THEN paths ELSE <<>>], n, cfgMaxKeys)

NextDelete ==
  \E c \in Callers :
    \/ DelBegin(c)
    \/ DelProbe(c)
    \/ DelFlush(c)
    \/ DelReturn(c)
    \/ WalkList(c)
    \/ WalkVisit(c)
    \/ WalkNext(c)

SpecDelete == InitDelete /\ [][NextDelete]_vars

------------------------------------------------------------------------------
(* Specification of one DeleteObjects call on the one path dirPath, a prefix
   whose keys span two or three listing pages; the call is one thread, so a
   step it can take is taken *)

InitDeletePages ==
  \E n \in {SmallPage + 1, 2 * SmallPage + 1} :
    /\ IdleCopy /\ IdleLocal /\ IdleRest
    /\ InitS3([c \in Callers |-> IF c = 1 THEN "DeleteObjects" ELSE "none"],
              [c \in Callers |-> IF c = 1 THEN <<dirPath>> ELSE <<>>], n, SmallPage)

SpecDeletePages == InitDeletePages /\ [][NextDelete]_vars /\ WF_vars(NextDelete)

------------------------------------------------------------------------------
(* Specification of a caller's Walk beside a DeleteObjects call *)

\* the deleting caller's inputs: paths that are not under the walked prefix
ConcPathLists == UNION {[1..n -> {fileKey, absentPath}] : n \in 1..MaxPaths}

InitConc ==
  \E paths \in ConcPathLists, n \in 0..(SmallPage + 1) :
    /\ IdleCopy /\ IdleLocal /\ IdleRest
    /\ InitS3([c \in Callers |-> IF c = 1 THEN "DeleteObjects" ELSE "Walk"],
              [c \in Callers |-> IF c = 1 THEN paths ELSE <<>>], n, SmallPage)

NextConc ==
  \E c \in Callers :
    \/ DelBegin(c)
    \/ DelProbe(c)
    \/ DelFlush(c)
    \/ DelReturn(c)
    \/ WalkBegin(c)
    \/ WalkList(c)
    \/ WalkVisit(c)
    \/ WalkNext(c)

SpecConc == InitConc /\ [][NextConc]_vars

------------------------------------------------------------------------------
(* Specification of two DeleteObjects calls running at once on one S3FS *)

\* each caller deletes the object fileKey or the prefix dirPath; a prefix
\* larger than one page is deleted by one of the two only
InitTwoDeletes ==
  \E p1, p2 \in {fileKey, dirPath}, n \in 0..(SmallPage + 1) :
    /\ IdleCopy /\ IdleLocal /\ IdleRest
    /\ n > SmallPage => ~(p1 = dirPath /\ p2 = dirPath)
    /\ InitS3([c \in Callers |-> "DeleteObjects"],
              [c \in Callers |-> IF c = 1 THEN <<p1>> ELSE <<p2>>], n, SmallPage)

SpecTwoDeletes == InitTwoDeletes /\ [][NextDelete]_vars

------------------------------------------------------------------------------
(* Specification of one CopyObject call on an S3 store *)

\* the source sizes the model starts from
SourceSizes ==
  {0, 1, max_copy_chunk_size} \cup
  ((max_put_object_copy_size - 1)..
     (max_put_object_copy_size + ExtraChunks * max_copy_chunk_size + 1))

InitCopyObject ==
  \E size \in SourceSizes :
    /\ IdleS3 /\ IdleLocal /\ IdleRest
    /\ InitCopy(size)

NextCopy ==
  \/ CopyStart
  \/ CreateUpload
  \/ CopyPart
  \/ CompleteUpload

SpecCopy == InitCopyObject /\ [][NextCopy]_vars

------------------------------------------------------------------------------
(* Specification of a multipart upload to the local store *)

InitUpload ==
  \E cfgChunkSize \in 0..MaxChunkBytes :
    /\ IdleS3 /\ IdleCopy /\ IdleRest
    /\ InitLocal([p \in LPaths |-> Absent], cfgChunkSize, <<>>)

NextUpload ==
  \/ InitializeObjectUpload
  \/ WriteChunk
  \/ CompleteObjectUpload

SpecUpload == InitUpload /\ [][NextUpload]_vars

------------------------------------------------------------------------------
(* Specification of lookups on both stores beside a local DeleteObjects *)

Entries ==
  {[kind |-> k, data |-> <<>>, denied |-> d] : k \in {"absent", "file", "dir"}, d \in BOOLEAN}

LocalPathLists == UNION {[1..n -> LPaths] : n \in 1..MaxLocalPaths}

InitLookup ==
  \E files \in [LPaths -> Entries], paths \in LocalPathLists :
    /\ IdleS3 /\ IdleCopy /\ IdleRest
    /\ InitLocal(files, 0, paths)

NextLookup ==
  \/ LocalGetObjectInfo
  \/ LocalGetObject
  \/ S3GetObjectInfoCall
  \/ S3GetObjectCall
  \/ LocalDeleteStep
  \/ LocalDeleteReturn

SpecLookup == InitLookup /\ [][NextLookup]_vars

------------------------------------------------------------------------------
(* Retryer.Send *)

\* the invocations of sendFunction the model follows one Send for; Send makes
\* fewer for every MaxAttempts of the model
MaxSendCalls == MaxMaxAttempts + 3

\* what one invocation of sendFunction can return
SendOutcomes == {[t |-> v, err |-> e] : v \in 1..MaxSendValue, e \in {"nil", "failed"}}

\* a loop that ends on success only
SendDoneOnSuccess(err, n, max) == err = "nil"

\* the test that ends Send's loop
SendDone(err, n, max) == err = "nil" \/ n > max

\* one iteration of Send's loop: the invocation, then return or sleep and
\* attempts++
SendIterate ==
  /\ sendPc = "loop" /\ Len(sendLog) < MaxSendCalls
  /\ \E o \in SendOutcomes :
       /\ sendLog' = Append(sendLog, o)
       /\ IF SendDone(o.err, attempts, MaxAttempts)
          THEN /\ sendRet' = o
               /\ sendPc' = "done"
               /\ UNCHANGED attempts
          ELSE /\ attempts' = attempts + 1
               /\ UNCHANGED <<sendRet, sendPc>>
  /\ UNCHANGED <<MaxAttempts, s3vars, copyvars, localvars, putvars, listvars,
                 visitvars, lwalkvars, rangevars, morevars>>

------------------------------------------------------------------------------
(* S3FS.ListDir, S3FS.getPage, S3FS.getAllUpToMax *)

\* s3client.ListObjectsV2 with the store's delimiter: one page of the entries
\* under the directory, those in pfx as common prefixes, the others as objects
ListPage(b, t, mk, pfx) ==
  LET r == ListObjectsV2(b, dirPath, t, mk)
  IN [CommonPrefixes |-> SelectSeq(r.Contents, LAMBDA k : k \in pfx),
      Contents |-> SelectSeq(r.Contents, LAMBDA k : k \notin pfx),
      IsTruncated |-> r.IsTruncated,
      NextContinuationToken |-> r.NextContinuationToken]

\* the token the paginator keeps after a page
PaginatorNext(page) == IF page.IsTruncated THEN page.NextContinuationToken ELSE Nil

\* a getPage that counts its pages from one
IsWantedPageFromOne(cur, page) == cur + 1 = page

\* getPage: whether the next page is the page asked for
IsWantedPage(cur, page) == cur = page

\* the first n elements of seq, none when n is not positive
Take(seq, n) == SubSeq(seq, 1, IF n < 0 THEN 0 ELSE Min(n, Len(seq)))

\* getAllUpToMax's filter loops: the matching elements of seq, as long as
\* objcount is below size
TakeMatching(seq, match, have, size) ==
  Take(SelectSeq(seq, LAMBDA k : k \in match), size - have)

\* a getAllUpToMax that stops after its first page
ListAllDoneAtOnce(next, size, collected) == TRUE

\* getAllUpToMax: whether the loop ends after this page
ListAllDone(next, size, collected) == next = Nil \/ size <= collected

\* a ListDir that puts the objects before the prefixes
ListResultObjectsFirst(pfxs, objs) ==
  [k \in 1..(Len(pfxs) + Len(objs)) |->
     IF k <= Len(objs)
     THEN [ID |-> k - 1, Key |-> objs[k], IsDir |-> FALSE]
     ELSE [ID |-> k - 1, Key |-> pfxs[k - Len(objs)], IsDir |-> TRUE]]

\* ListDir: the result objects, the prefixes before the objects
ListResult(pfxs, objs) ==
  [k \in 1..(Len(pfxs) + Len(objs)) |->
     IF k <= Len(pfxs)
     THEN [ID |-> k - 1, Key |-> pfxs[k], IsDir |-> TRUE]
     ELSE [ID |-> k - 1, Key |-> objs[k - Len(pfxs)], IsDir |-> FALSE]]

ListFrame ==
  UNCHANGED <<s3vars, copyvars, localvars, putvars, retryvars, visitvars, lwalkvars,
              rangevars, morevars,
              listInput, listPrefixSet, listMatch>>

\* ListDir up to its branch, and the head of getPage or getAllUpToMax
ListDirBegin ==
  /\ listPc = "idle"
  /\ IF ~listInput.Filter /\ listInput.Size <= DEFAULTMAXKEYS
     THEN /\ listPc' = "getPage"
          /\ listMaxKeys' = IF listInput.Size > 0 THEN listInput.Size ELSE maxKeys
          /\ listMore' = TRUE
     ELSE /\ listPc' = "getAllUpToMax"
          /\ listMaxKeys' = IF listInput.Size > 0 /\ listInput.Size < DEFAULTMAXKEYS
                            THEN listInput.Size ELSE maxKeys
          /\ UNCHANGED listMore
  /\ listToken' = Nil
  /\ currentPage' = 0
  /\ prefixes' = <<>>
  /\ listObjects' = <<>>
  /\ objcount' = 0
  /\ UNCHANGED listRet
  /\ ListFrame

\* getPage: one iteration of the paginator loop
GetPageIterate ==
  /\ listPc = "getPage" /\ listMore
  /\ \E fault \in BOOLEAN :
       IF fault
       THEN /\ listRet' = [nil |-> TRUE, err |-> "Unable to get page", entries |-> <<>>]
            /\ listPc' = "done"
            /\ UNCHANGED <<listToken, listMore, currentPage, prefixes, listObjects>>
       ELSE LET page == ListPage(bucket, listToken, listMaxKeys, listPrefixSet)
            IN IF IsWantedPage(currentPage, listInput.Page)
               THEN /\ prefixes' = prefixes \o page.CommonPrefixes
                    /\ listObjects' = listObjects \o page.Contents
                    /\ listPc' = "result"
                    /\ listToken' = PaginatorNext(page)
                    /\ listMore' = (PaginatorNext(page) # Nil)
                    /\ UNCHANGED <<currentPage, listRet>>
               ELSE /\ currentPage' = currentPage + 1
                    /\ listToken' = PaginatorNext(page)
                    /\ listMore' = (PaginatorNext(page) # Nil)
                    /\ UNCHANGED <<prefixes, listObjects, listPc, listRet>>
  /\ UNCHANGED <<listMaxKeys, objcount>>
  /\ ListFrame

\* getPage: the paginator has no more pages
GetPageEnd ==
  /\ listPc = "getPage" /\ ~listMore
  /\ listPc' = "result"
  /\ UNCHANGED <<listMaxKeys, listToken, listMore, currentPage, prefixes,
                 listObjects, objcount, listRet>>
  /\ ListFrame

\* getAllUpToMax: one iteration of its loop
GetAllIterate ==
  /\ listPc = "getAllUpToMax"
  /\ \E fault \in BOOLEAN :
       IF fault
       THEN /\ listRet' = [nil |-> TRUE, err |-> "Unable to get page", entries |-> <<>>]
            /\ listPc' = "done"
            /\ UNCHANGED <<listToken, prefixes, listObjects, objcount>>
       ELSE LET page == ListPage(bucket, listToken, listMaxKeys, listPrefixSet)
                addP == IF listInput.Filter
                        THEN TakeMatching(page.CommonPrefixes, listMatch, objcount,
                                          listInput.Size)
                        ELSE page.CommonPrefixes
                cnt1 == IF listInput.Filter THEN objcount + Len(addP) ELSE objcount
                addO == IF listInput.Filter
                        THEN TakeMatching(page.Contents, listMatch, cnt1, listInput.Size)
                        ELSE page.Contents
                cnt2 == IF listInput.Filter THEN cnt1 + Len(addO) ELSE objcount
                pfxs == prefixes \o addP
                objs == listObjects \o addO
            IN /\ prefixes' = pfxs
               /\ listObjects' = objs
               /\ objcount' = cnt2
               /\ IF ListAllDone(page.NextContinuationToken, listInput.Size,
                                 Len(pfxs) + Len(objs))
                  THEN listPc' = "result" /\ UNCHANGED listToken
                  ELSE listToken' = page.NextContinuationToken /\ UNCHANGED listPc
               /\ UNCHANGED listRet
  /\ UNCHANGED <<listMaxKeys, listMore, currentPage>>
  /\ ListFrame

\* ListDir: the result built from prefixes and objects
ListDirReturn ==
  /\ listPc = "result"
  /\ listRet' = [nil |-> FALSE, err |-> "nil", entries |-> ListResult(prefixes, listObjects)]
  /\ listPc' = "done"
  /\ UNCHANGED <<listMaxKeys, listToken, listMore, currentPage, prefixes,
                 listObjects, objcount>>
  /\ ListFrame

------------------------------------------------------------------------------
(* BlockFS.Walk *)

\* what the function BlockFS.Walk hands to filepath.Walk returns for a path:
\* the error of the visitor function
WalkFuncResult(visitorErr) == visitorErr

\* filepath.Walk at one path: the visitor function is called, and an error
\* it returns ends the walk
LocalWalkVisit ==
  /\ lwPc = "walk" /\ lwIdx <= lwEntries
  /\ lwVisited' = Append(lwVisited, lwIdx)
  /\ \E visitorErr \in {"nil", "visitorError"} :
       IF WalkFuncResult(visitorErr) # "nil"
       THEN /\ lwRet' = WalkFuncResult(visitorErr)
            /\ lwPc' = "done"
            /\ UNCHANGED lwIdx
       ELSE /\ lwIdx' = lwIdx + 1
            /\ UNCHANGED <<lwRet, lwPc>>
  /\ UNCHANGED <<lwEntries, s3vars, copyvars, localvars, putvars, retryvars, listvars,
                 visitvars, rangevars, morevars>>

\* filepath.Walk has gone through every path
LocalWalkReturn ==
  /\ lwPc = "walk" /\ lwIdx > lwEntries
  /\ lwRet' = "nil"
  /\ lwPc' = "done"
  /\ UNCHANGED <<lwEntries, lwIdx, lwVisited, s3vars, copyvars, localvars, putvars,
                 retryvars, listvars, visitvars, rangevars, morevars>>

------------------------------------------------------------------------------
(* parseRange.  A string is a sequence of characters.  The model's alphabet
   has one letter, two decimal digits and the two separators of the range
   syntax; int64 is RangeIntBits wide. *)

Letters == {"u"}

Digits == {"1", "9"}

RangeChars == Letters \cup Digits \cup {"=", "-"}

DigitValue == ("1" :> 1) @@ ("9" :> 9)

MaxInt64 == 2 ^ (RangeIntBits - 1) - 1

RECURSIVE DecValue(_)
DecValue(digits) ==
  IF digits = <<>> THEN 0
  ELSE 10 * DecValue(SubSeq(digits, 1, Len(digits) - 1))
       + DigitValue[digits[Len(digits)]]

\* positions of "=" and "-" at which ^([a-zA-Z]+)=(\d+)-(\d+)$ matches all of s
RangeSplits(s) ==
  {p \in (1..Len(s)) \X (1..Len(s)) :
     /\ 1 < p[1] /\ p[1] + 1 < p[2] /\ p[2] < Len(s)
     /\ s[p[1]] = "=" /\ s[p[2]] = "-"
     /\ \A k \in 1..(p[1] - 1) : s[k] \in Letters
     /\ \A k \in (p[1] + 1)..(p[2] - 1) : s[k] \in Digits
     /\ \A k \in (p[2] + 1)..Len(s) : s[k] \in Digits}

\* re.FindStringSubmatch: the match and its three groups, or nothing
FindStringSubmatch(s) ==
  IF RangeSplits(s) = {} THEN <<>>
  ELSE LET p == CHOOSE q \in RangeSplits(s) : TRUE
       IN  <<s, SubSeq(s, 1, p[1] - 1), SubSeq(s, p[1] + 1, p[2] - 1),
             SubSeq(s, p[2] + 1, Len(s))>>

ParseIntLastDigit(digits) ==
  [n |-> DigitValue[digits[Len(digits)]], err |-> "nil"]

\* strconv.ParseInt(digits, 10, 64) of a string of decimal digits
ParseInt(digits) ==
  IF DecValue(digits) > MaxInt64
  THEN [n |-> MaxInt64, err |-> "value out of range"]
  ELSE [n |-> DecValue(digits), err |-> "nil"]

parseRange(input) ==
  LET matches == FindStringSubmatch(input)
      r0 == [Unit |-> <<>>, Start |-> 0, End |-> 0]
  IN  IF Len(matches) # 4
      THEN [r |-> r0, err |-> "invalid range input format"]
      ELSE LET r1 == [r0 EXCEPT !.Unit = matches[2]]
               start == ParseInt(matches[3])
               r2 == [r1 EXCEPT !.Start = start.n]
               end == ParseInt(matches[4])
           IN  IF start.err # "nil" THEN [r |-> r1, err |-> start.err]
               ELSE IF end.err # "nil" THEN [r |-> r2, err |-> end.err]
               ELSE [r |-> [r2 EXCEPT !.End = end.n], err |-> "nil"]

ParseRangeCall ==
  /\ rangePc = "call"
  /\ rangeOut' = parseRange(rangeInput)
  /\ rangePc' = "done"
  /\ UNCHANGED <<rangeInput, s3vars, copyvars, localvars, putvars, retryvars,
                 listvars, visitvars, lwalkvars, morevars>>

------------------------------------------------------------------------------
(* The signing utility.

   A text (a query value, a timestamp, a signature) is a record: kind says
   what the characters spell, esc how many times url.QueryEscape has changed
   it.  A URL is its part before the "?" (base) and its RawQuery, the
   name=value pairs in the order they are written, the values escaped.  The
   clock counts ticks, Second of them to the second; time.Duration is
   DurationBits wide. *)

signatureQueryName == "X-Amx-Signature"
expirationQueryName == "X-Amx-Expiration"
timeQueryName == "X-Amx-Date"
maxExpiration == 86400 * 30

Text(kind, val) ==
  [kind |-> kind, val |-> val, key |-> 0, base |-> 0, data |-> <<>>,
   nl |-> FALSE, esc |-> 0]

\* an ordinary parameter value
Plain(v) == Text("plain", v)

\* the empty string
EmptyText == Text("empty", 0)

\* characters that spell no timestamp, no number and no base64
Junk == Text("junk", 0)

\* query parameter names in the byte order url.Values.Encode sorts them by
SortedNames == <<"A", timeQueryName, expirationQueryName, signatureQueryName, "a">>

ParamNames == {SortedNames[k] : k \in 1..Len(SortedNames)}

SigningNames == {timeQueryName, expirationQueryName, signatureQueryName}

\* url.QueryEscape: base64 text holds "=", an escaped text holds "%"; the
\* other texts of the model hold unreserved characters only
QueryEscape(t) ==
  IF t.kind = "b64" \/ t.esc > 0 THEN [t EXCEPT !.esc = @ + 1] ELSE t

QueryUnescapeNothing(t) == [text |-> t, err |-> "nil"]

\* url.QueryUnescape; the "+" of a base64 text that was never escaped
\* becomes a space
QueryUnescape(t) ==
  IF t.esc > 0 THEN [text |-> [t EXCEPT !.esc = @ - 1], err |-> "nil"]
  ELSE IF t.kind = "b64" THEN [text |-> Junk, err |-> "nil"]
  ELSE [text |-> t, err |-> "nil"]

RECURSIVE ValuesOf(_, _)
ValuesOf(raw, name) ==
  IF raw = <<>> THEN <<>>
  ELSE IF Head(raw)[1] = name
       THEN <<QueryUnescape(Head(raw)[2]).text>> \o ValuesOf(Tail(raw), name)
       ELSE ValuesOf(Tail(raw), name)

\* (*URL).Query: url.Values, the values of each name in the order written
Query(uri) == [name \in ParamNames |-> ValuesOf(uri.RawQuery, name)]

\* url.Values.Add, Get and Del
Add(qp, name, t) == [qp EXCEPT ![name] = Append(@, t)]

Get(qp, name) == IF qp[name] = <<>> THEN EmptyText ELSE qp[name][1]

Del(qp, name) == [qp EXCEPT ![name] = <<>>]

RECURSIVE EncodeFrom(_, _)
EncodeFrom(qp, k) ==
  IF k > Len(SortedNames) THEN <<>>
  ELSE [j \in 1..Len(qp[SortedNames[k]]) |->
          <<SortedNames[k], QueryEscape(qp[SortedNames[k]][j])>>]
       \o EncodeFrom(qp, k + 1)

\* url.Values.Encode: sorted by name, the values escaped
Encode(qp) == EncodeFrom(qp, 1)

\* HMAC-SHA256 of uri.String() under the key: bytes that name what was signed
sign(uri, key) ==
  [kind |-> "mac", val |-> 0, key |-> key, base |-> uri.base,
   data |-> uri.RawQuery, nl |-> FALSE, esc |-> 0]

\* b64.StdEncoding.EncodeToString
EncodeToString(bytes) == [bytes EXCEPT !.kind = "b64"]

\* b64.StdEncoding.DecodeString, which skips the line breaks of its input
DecodeString(t) ==
  IF t.kind = "empty" THEN [bytes |-> t, err |-> "nil"]
  ELSE IF t.kind = "b64" /\ t.esc = 0
  THEN [bytes |-> [t EXCEPT !.kind = "mac", !.nl = FALSE], err |-> "nil"]
  ELSE [bytes |-> EmptyText, err |-> "illegal base64 data"]

\* time.Now().UTC().Format(timeFormat): whole seconds
Format(clock) == Text("date", clock \div Second)

\* time.Parse(timeFormat, ...)
Parse(t) ==
  IF t.kind = "date" /\ t.esc = 0 THEN [t |-> t.val * Second, err |-> "nil"]
  ELSE [t |-> 0, err |-> "parsing time"]

\* strconv.Itoa and strconv.Atoi
Itoa(n) == Text("int", n)

Atoi(t) ==
  IF t.kind = "int" /\ t.esc = 0 THEN [n |-> t.val, err |-> "nil"]
  ELSE [n |-> 0, err |-> "invalid syntax"]

\* the value a time.Duration holds after an arithmetic result x
Duration(x) ==
  ((x + 2 ^ (DurationBits - 1)) % (2 ^ DurationBits)) - 2 ^ (DurationBits - 1)

PresignObjectNoCeiling(uri, key, exp, clock) ==
  LET qp1 == Add(Add(Query(uri), timeQueryName, Format(clock)),
                 expirationQueryName, Itoa(exp))
      u1 == [uri EXCEPT !.RawQuery = Encode(qp1)]
      sUrl == QueryEscape(EncodeToString(sign(u1, key)))
  IN  [url |-> [uri EXCEPT !.RawQuery = Encode(Add(qp1, signatureQueryName, sUrl))],
       err |-> "nil"]

PresignObject(uri, key, exp, clock) ==
  IF exp > maxExpiration
  THEN [url |-> NoUrl, err |-> "Expiration time too long"]
  ELSE LET qp1 == Add(Add(Query(uri), timeQueryName, Format(clock)),
                      expirationQueryName, Itoa(exp))
           u1 == [uri EXCEPT !.RawQuery = Encode(qp1)]
           signature == sign(u1, key)
           sEnc == EncodeToString(signature)
           sUrl == QueryEscape(sEnc)
           qp2 == Add(qp1, signatureQueryName, sUrl)
       IN  [url |-> [uri EXCEPT !.RawQuery = Encode(qp2)], err |-> "nil"]

verifySignatureDecodeOnly(uri, key) ==
  LET b64signature == QueryUnescape(Get(Query(uri), signatureQueryName))
  IN  [ok |-> DecodeString(b64signature.text).err = "nil", uri |-> uri]

\* verifySignature; it rewrites the RawQuery of the URL it is handed
verifySignature(uri, key) ==
  LET qp == Query(uri)
      urlSignature == Get(qp, signatureQueryName)
      b64signature == QueryUnescape(urlSignature)
      signature == DecodeString(b64signature.text)
      stripped == [uri EXCEPT !.RawQuery = Encode(Del(qp, signatureQueryName))]
  IN  IF b64signature.err # "nil" \/ signature.err # "nil"
      THEN [ok |-> FALSE, uri |-> uri]
      ELSE [ok |-> signature.bytes = sign(stripped, key), uri |-> stripped]

verifyExpiration(qp, clock) ==
  LET t == Parse(Get(qp, timeQueryName))
      d == Atoi(Get(qp, expirationQueryName))
  IN  IF t.err # "nil" \/ d.err # "nil" THEN FALSE
      ELSE t.t + Duration(Second * d.n) > clock

VerifySignedObject(uri, key, clock) ==
  LET sig == verifySignature(uri, key)
      timeok == verifyExpiration(Query(sig.uri), clock)
  IN  sig.ok /\ timeok

SignFrame ==
  UNCHANGED <<signUri, signKey, signExp, s3vars, copyvars, localvars, putvars,
              retryvars, listvars, visitvars, lwalkvars, rangevars, sessvars, ldirvars,
              srcvars, lockvars, getvars>>

PresignCall ==
  /\ signPc = "call"
  /\ LET out == PresignObject(signUri, signKey, signExp, now)
     IN  /\ signedUrl' = out.url
         /\ signErr' = out.err
         /\ signPc' = IF out.err = "nil" THEN "signed" ELSE "rejected"
  /\ signedAt' = now
  /\ UNCHANGED <<now, clockSteps, tampered, verifyOut, everOk>>
  /\ SignFrame

\* the instant the signed URL runs out: its timestamp plus its expiration
ExpiresAt == (signedAt \div Second) * Second + signExp * Second

\* time passes: one tick, or up to the tick before the URL runs out
ClockTick ==
  /\ signPc = "signed"
  /\ \/ /\ clockSteps < MaxClockSteps
        /\ now' = now + 1
        /\ clockSteps' = clockSteps + 1
     \/ /\ now < ExpiresAt - 1
        /\ now' = ExpiresAt - 1
        /\ UNCHANGED clockSteps
  /\ verifyOut' = "none"
  /\ UNCHANGED <<signPc, signedUrl, signErr, signedAt, tampered, everOk>>
  /\ SignFrame

OtherKey(key) == 3 - key

\* the texts a query value can be changed to
TamperTexts(t) ==
  LET u1 == QueryUnescape(t).text
      u2 == QueryUnescape(u1).text
  IN  IF u2.kind = "b64"
      THEN {Junk,
            QueryEscape(QueryEscape([u2 EXCEPT !.key = OtherKey(@)])),
            QueryEscape(QueryEscape([u2 EXCEPT !.nl = TRUE]))}
      ELSE IF t.kind = "date" THEN {Text("date", t.val + 1), Junk}
      ELSE IF t.kind = "int" THEN {Text("int", t.val + 1), Junk}
      ELSE {Plain(2)}

\* somebody changes the value of one query parameter of the signed URL
Tamper ==
  /\ signPc = "signed"
  /\ tampered = 0
  /\ \E k \in 1..Len(signedUrl.RawQuery) :
       \E t \in TamperTexts(signedUrl.RawQuery[k][2]) :
         /\ signedUrl' = [signedUrl EXCEPT !.RawQuery[k][2] = t]
         /\ tampered' = k
  /\ verifyOut' = "none"
  /\ UNCHANGED <<now, clockSteps, signPc, signErr, signedAt, everOk>>
  /\ SignFrame

VerifyCall ==
  /\ signPc = "signed"
  /\ verifyOut = "none"
  /\ LET ok == VerifySignedObject(signedUrl, signKey, now)
     IN  /\ verifyOut' = IF ok THEN "true" ELSE "false"
         /\ everOk' = (everOk \/ ok)
  /\ UNCHANGED <<now, clockSteps, signPc, signedUrl, signErr, signedAt, tampered>>
  /\ SignFrame

------------------------------------------------------------------------------
(* Multipart calls and their session ids.  The S3 service knows the uploads
   it has created and answers NoSuchUpload for any other id. *)

UploadIds == 1..MaxUploadIds

\* uuid.New() and CreateMultipartUpload: an id not handed out before
FreshId(issued) == CHOOSE id \in UploadIds : id \notin issued

\* BlockFS.WriteChunk: u.UploadId is not read
BlockWriteChunk(file, u, chunkSize) ==
  IF file.kind = "dir" \/ file.denied
  THEN [file |-> file, WriteSize |-> 0, err |-> "PathError"]
  ELSE [file |-> [kind |-> "file",
                  data |-> WriteAt(file.data, u.Data, ChunkOffset(u.ChunkId, chunkSize)),
                  denied |-> FALSE],
        WriteSize |-> Len(u.Data), err |-> "nil"]

\* BlockFS.CompleteObjectUpload
BlockCompleteObjectUpload(u) == "nil"

\* the service's answer to UploadPart and CompleteMultipartUpload
S3UploadCause(issued, assembled, UploadId) ==
  IF UploadId \in issued /\ UploadId \notin assembled THEN "none" ELSE "NoSuchUpload"

\* S3FS.WriteChunk and S3FS.CompleteObjectUpload return the service's error
S3UploadErr(cause) == IF cause = "none" THEN "nil" ELSE cause

SessFrame ==
  UNCHANGED <<s3vars, copyvars, localvars, putvars, retryvars, listvars, visitvars,
              lwalkvars, rangevars, signvars, ldirvars, srcvars, lockvars, getvars>>

SessEntry(b, call, id, err, wrote) ==
  [backend |-> b, op |-> call, UploadId |-> id, known |-> id \in sessIssued[b],
   err |-> err, wrote |-> wrote]

SessInitialize(b) ==
  /\ Len(sessLog) < MaxSessCalls
  /\ sessIssued[b] # UploadIds
  /\ LET id == FreshId(sessIssued[b])
     IN  /\ sessIssued' = [sessIssued EXCEPT ![b] = @ \cup {id}]
         /\ sessLog' = Append(sessLog, SessEntry(b, "InitializeObjectUpload", id, "nil",
                                                 b = "local" /\ sessFile.kind # "file"))
  /\ sessFile' = IF b = "local"
                 THEN [kind |-> "file", data |-> <<>>, denied |-> FALSE]
                 ELSE sessFile
  /\ UNCHANGED <<sessParts, sessObjects>>
  /\ SessFrame

SessWriteChunk(b) ==
  /\ Len(sessLog) < MaxSessCalls
  /\ \E id \in UploadIds, chunk \in 0..1 :
       LET u == [UploadId |-> id, ChunkId |-> chunk, Data |-> ChunkData(chunk, MaxChunkBytes)]
           out == BlockWriteChunk(sessFile, u, MaxChunkBytes)
           err == S3UploadErr(S3UploadCause(sessIssued["s3"], sessObjects, id))
       IN  IF b = "local"
           THEN /\ sessFile' = out.file
                /\ sessLog' = Append(sessLog, SessEntry(b, "WriteChunk", id, out.err,
                                                        out.file # sessFile))
                /\ UNCHANGED sessParts
           ELSE /\ sessParts' = IF err = "nil" THEN sessParts \cup {<<id, chunk + 1>>}
                                ELSE sessParts
                /\ sessLog' = Append(sessLog, SessEntry(b, "WriteChunk", id, err,
                                                        err = "nil" /\ <<id, chunk + 1>> \notin sessParts))
                /\ UNCHANGED sessFile
  /\ UNCHANGED <<sessIssued, sessObjects>>
  /\ SessFrame

SessComplete(b) ==
  /\ Len(sessLog) < MaxSessCalls
  /\ \E id \in UploadIds :
       LET u == [UploadId |-> id]
           err == IF b = "local" THEN BlockCompleteObjectUpload(u)
                  ELSE S3UploadErr(S3UploadCause(sessIssued["s3"], sessObjects, id))
       IN  /\ sessObjects' = IF b = "s3" /\ err = "nil" THEN sessObjects \cup {id}
                             ELSE sessObjects
           /\ sessLog' = Append(sessLog, SessEntry(b, "CompleteObjectUpload", id, err,
                                                   b = "s3" /\ err = "nil"))
  /\ UNCHANGED <<sessIssued, sessFile, sessParts>>
  /\ SessFrame

------------------------------------------------------------------------------
(* ListDir on a local store *)

\* the error of ioutil.ReadDir on entry e: a *fs.PathError from os.Open, or
\* from reading the entries of what is not a directory
ReadDirError(e) ==
  IF e.kind = "file" /\ ~e.denied THEN [type |-> "PathError", errno |-> "ENOTDIR"]
  ELSE PathErrorOf(e)

\* BlockFS.ListDir: the error of ioutil.ReadDir is returned as it is
BlockListDir(e) ==
  LET err == ReadDirError(e)
  IN  [cause |-> err.errno, err |-> Surface(err, FALSE), objects |-> <<>>]

LocalListDir ==
  /\ \E p \in LPaths : listDirOut' = [path |-> p] @@ BlockListDir(fs[p])
  /\ UNCHANGED <<s3vars, copyvars, localvars, putvars, retryvars, listvars, visitvars,
                 lwalkvars, rangevars, signvars, sessvars, srcvars, lockvars, getvars>>

------------------------------------------------------------------------------
(* Specification of PutObject calls on a local store *)

InitPut ==
  \E payload \in Payloads, srcThere \in BOOLEAN, dirThere \in BOOLEAN,
     olds \in SUBSET PutDests :
    /\ IdleS3 /\ IdleCopy /\ IdleRetry /\ IdleList /\ IdleVisit /\ IdleLocalWalk
    /\ IdleRange /\ IdleMore
    /\ putPayload = payload
    /\ putLog = <<>>
    /\ InitLocal([p \in PutPaths |->
                    IF p = PutDir THEN (IF dirThere THEN Directory ELSE Absent)
                    ELSE IF p = PutSrc THEN (IF srcThere THEN FileOf(payload) ELSE Absent)
                    ELSE IF p \in olds /\ dirThere THEN FileOf(OldContent)
                    ELSE Absent],
                 0, <<>>)

NextPut == PutObjectCall

SpecPut == InitPut /\ [][NextPut]_vars

\* PutObject and CopyObject calls on a local store
NextPutCopy == PutObjectCall \/ LocalCopyObjectCall

SpecPutCopy == InitPut /\ [][NextPutCopy]_vars

------------------------------------------------------------------------------
(* Specification of one Retryer.Send; sendFunction returns and the sleep
   between two invocations ends, so an iteration that can be made is made *)

InitRetry ==
  \E max \in (0 - 2)..MaxMaxAttempts :
    /\ IdleS3 /\ IdleCopy /\ IdleLocal /\ IdlePut /\ IdleList /\ IdleVisit
    /\ IdleLocalWalk /\ IdleRange /\ IdleMore
    /\ InitSend(max)

NextRetry == SendIterate

SpecRetry == InitRetry /\ [][NextRetry]_vars /\ WF_vars(NextRetry)

------------------------------------------------------------------------------
(* Specification of one ListDir call on an S3 store *)

ListSizes == (0..MaxListSize) \cup {DEFAULTMAXKEYS, DEFAULTMAXKEYS + 1}

ListInputs ==
  [Filter : BOOLEAN, Size : ListSizes, Page : (0 - 1)..MaxListPage]

InitListDir ==
  \E n \in 0..MaxListKeys, cfgMaxKeys \in {0, SmallPage}, input \in ListInputs,
     pfx \in SUBSET (1..MaxListKeys), match \in SUBSET (1..MaxListKeys) :
    /\ pfx \subseteq 1..n /\ match \subseteq 1..n
    /\ ~input.Filter => match = {}
    /\ InitS3([c \in Callers |-> "none"], [c \in Callers |-> <<>>], n, cfgMaxKeys)
    /\ IdleCopy /\ IdleLocal /\ IdlePut /\ IdleRetry /\ IdleVisit /\ IdleLocalWalk
    /\ IdleRange /\ IdleMore
    /\ InitList(input, pfx, match)

NextListDir ==
  \/ ListDirBegin
  \/ GetPageIterate
  \/ GetPageEnd
  \/ GetAllIterate
  \/ ListDirReturn

SpecListDir == InitListDir /\ [][NextListDir]_vars

------------------------------------------------------------------------------
(* Specification of one ListDir call on a directory of more entries than the
   largest page of the store *)

InitListLarge ==
  \E n \in {DEFAULTMAXKEYS + MaxListKeys - 1},
     cfgMaxKeys \in {0, SmallPage}, input \in ListInputs,
     pfx \in {{}, {1}}, match \in {{}, 1..(MaxListSize + 1)} :
    /\ ~input.Filter => match = {}
    /\ input.Filter => match # {}
    /\ InitS3([c \in Callers |-> "none"], [c \in Callers |-> <<>>], n, cfgMaxKeys)
    /\ IdleCopy /\ IdleLocal /\ IdlePut /\ IdleRetry /\ IdleVisit /\ IdleLocalWalk
    /\ IdleRange /\ IdleMore
    /\ InitList(input, pfx, match)

SpecListLarge == InitListLarge /\ [][NextListDir]_vars

------------------------------------------------------------------------------
(* Specification of one Walk on an S3 store and one Walk on a local store *)

InitWalk ==
  \E n \in 0..(SmallPage + 1), m \in 1..MaxWalkEntries :
    /\ InitS3([c \in Callers |-> IF c = 2 THEN "Walk" ELSE "none"],
              [c \in Callers |-> <<>>], n, SmallPage)
    /\ IdleCopy /\ IdleLocal /\ IdlePut /\ IdleRetry /\ IdleList /\ IdleVisit
    /\ IdleRange /\ IdleMore
    /\ InitLocalWalk(m)

NextWalk ==
  \/ \E c \in Callers :
       \/ WalkBegin(c)
       \/ WalkList(c)
       \/ WalkVisit(c)
       \/ WalkNext(c)
  \/ LocalWalkVisit
  \/ LocalWalkReturn

SpecWalk == InitWalk /\ [][NextWalk]_vars

\* Walk is one thread on each store: a step it can take is taken
SpecWalkFair == InitWalk /\ [][NextWalk]_vars /\ WF_vars(NextWalk)

------------------------------------------------------------------------------
(* Specification of one parseRange call on any string of the alphabet *)

RangeInputs == UNION {[1..n -> RangeChars] : n \in 0..MaxRangeLen}

InitRange ==
  \E input \in RangeInputs :
    /\ IdleS3 /\ IdleCopy /\ IdleLocal /\ IdlePut /\ IdleRetry /\ IdleList
    /\ IdleVisit /\ IdleLocalWalk /\ IdleMore
    /\ InitParse(input)

NextRange == ParseRangeCall

SpecRange == InitRange /\ [][NextRange]_vars

------------------------------------------------------------------------------
(* Specification of one PresignObject call, the clock, a change to the signed
   URL and VerifySignedObject calls with the signing key *)

OrigPairs ==
  {<<"A", Plain(1)>>, <<"a", Plain(1)>>, <<signatureQueryName, Junk>>,
   <<timeQueryName, Junk>>}

OrigQueries == UNION {[1..n -> OrigPairs] : n \in 0..MaxOrigParams}

\* the negative expiration nearest zero whose Duration is positive
WrapExpiration == 0 - ((2 ^ (DurationBits - 1)) \div Second + 1)

Expirations ==
  {WrapExpiration, 0 - 1, 0, 1, maxExpiration, maxExpiration + 1, maxExpiration + 86400}

InitSigning ==
  \E raw \in OrigQueries, key \in {1, 2}, exp \in Expirations, clock \in 0..Second :
    /\ IdleS3 /\ IdleCopy /\ IdleLocal /\ IdlePut /\ IdleRetry /\ IdleList
    /\ IdleVisit /\ IdleLocalWalk /\ IdleRange /\ IdleSess /\ IdleListDir /\ IdleSrc
    /\ IdleLock /\ IdleGet
    /\ InitSign([base |-> 1, RawQuery |-> raw], key, exp, clock)

NextSigning ==
  \/ PresignCall
  \/ ClockTick
  \/ Tamper
  \/ VerifyCall

SpecSigning == InitSigning /\ [][NextSigning]_vars

------------------------------------------------------------------------------
(* Specification of multipart calls on a local store and on an S3 store, with
   any upload id *)

InitSession ==
  \E there \in BOOLEAN :
    /\ IdleS3 /\ IdleCopy /\ IdleLocal /\ IdlePut /\ IdleRetry /\ IdleList
    /\ IdleVisit /\ IdleLocalWalk /\ IdleRange /\ IdleSign /\ IdleListDir /\ IdleSrc
    /\ IdleLock /\ IdleGet
    /\ InitSess(IF there THEN [kind |-> "file", data |-> <<9>>, denied |-> FALSE]
                ELSE [kind |-> "absent", data |-> <<>>, denied |-> FALSE])

NextSession ==
  \E b \in Backends :
    \/ SessInitialize(b)
    \/ SessWriteChunk(b)
    \/ SessComplete(b)

SpecSession == InitSession /\ [][NextSession]_vars

------------------------------------------------------------------------------
(* Specification of ListDir and GetObjectInfo calls on a local store *)

InitLocalList ==
  \E files \in [LPaths -> Entries] :
    /\ IdleS3 /\ IdleCopy /\ IdlePut /\ IdleRetry /\ IdleList /\ IdleVisit
    /\ IdleLocalWalk /\ IdleRange /\ IdleSign /\ IdleSess /\ IdleSrc
    /\ IdleLock /\ IdleGet
    /\ InitLocal(files, 0, <<>>)
    /\ listDirOut = NoListDir

NextLocalList ==
  \/ LocalListDir
  \/ LocalGetObjectInfo

SpecLocalList == InitLocalList /\ [][NextLocalList]_vars

------------------------------------------------------------------------------
(* Specification of one PutObject call on each store, with any ObjectSource *)

InitPutSource ==
  \E payload \in Payloads, srcThere \in BOOLEAN, dirThere \in BOOLEAN,
     olds \in SUBSET PutDests :
    /\ IdleS3 /\ IdleCopy /\ IdleRetry /\ IdleList /\ IdleVisit /\ IdleLocalWalk
    /\ IdleRange /\ IdleSign /\ IdleSess /\ IdleListDir
    /\ IdleLock /\ IdleGet
    /\ putPayload = payload
    /\ putLog = <<>>
    /\ InitLocal([p \in PutPaths |->
                    IF p = PutDir THEN (IF dirThere THEN Directory ELSE Absent)
                    ELSE IF p = PutSrc THEN (IF srcThere THEN FileOf(payload) ELSE Absent)
                    ELSE IF p \in olds /\ dirThere THEN FileOf(OldContent)
                    ELSE Absent],
                 0, <<>>)
    /\ InitSrc([d \in PutDests |-> IF d \in olds THEN FileOf(OldContent) ELSE Absent])

NextPutSource ==
  \/ LocalPutObjectCall
  \/ S3PutObjectCall

SpecPutSource == InitPutSource /\ [][NextPutSource]_vars

------------------------------------------------------------------------------
(* BlockFS.WriteChunk called by two goroutines with the same ObjectPath, one
   statement of the function per step *)

LockFrame ==
  UNCHANGED <<s3vars, copyvars, localvars, putvars, retryvars, listvars, visitvars,
              lwalkvars, rangevars, signvars, sessvars, ldirvars, srcvars, getvars>>

\* the call is made, and mutex := &sync.Mutex{} allocates a mutex of its own
WriteChunkBegin(w) ==
  /\ wcPc[w] = "idle"
  /\ wcAllocated < MaxLockCalls
  /\ \E chunk \in 0..1, len \in 1..MaxChunkBytes :
       wcArg' = [wcArg EXCEPT ![w] = [ChunkId |-> chunk, Data |-> [n \in 1..len |-> w]]]
  /\ wcAllocated' = wcAllocated + 1
  /\ wcMutex' = [wcMutex EXCEPT ![w] = wcAllocated + 1]
  /\ wcPc' = [wcPc EXCEPT ![w] = "lock"]
  /\ UNCHANGED <<wcHeld, wcFile>>
  /\ LockFrame

\* mutex.Lock() blocks while the mutex of this call is locked
WriteChunkLock(w) ==
  /\ wcPc[w] = "lock"
  /\ wcMutex[w] \notin wcHeld
  /\ wcHeld' = wcHeld \cup {wcMutex[w]}
  /\ wcPc' = [wcPc EXCEPT ![w] = "open"]
  /\ UNCHANGED <<wcArg, wcMutex, wcAllocated, wcFile>>
  /\ LockFrame

\* os.OpenFile(u.ObjectPath, O_WRONLY|O_CREATE): the file is created if absent
WriteChunkOpenFile(w) ==
  /\ wcPc[w] = "open"
  /\ IF wcFile.kind = "dir" \/ wcFile.denied
     THEN /\ wcPc' = [wcPc EXCEPT ![w] = "return"]
          /\ UNCHANGED wcFile
     ELSE /\ wcPc' = [wcPc EXCEPT ![w] = "write"]
          /\ wcFile' = [wcFile EXCEPT !.kind = "file"]
  /\ UNCHANGED <<wcArg, wcMutex, wcAllocated, wcHeld>>
  /\ LockFrame

\* f.WriteAt(u.Data, int64(u.ChunkId) * b.Config.ChunkSize)
WriteChunkWriteAt(w) ==
  /\ wcPc[w] = "write"
  /\ wcFile' = [wcFile EXCEPT !.data =
                  WriteAt(@, wcArg[w].Data, ChunkOffset(wcArg[w].ChunkId, MaxChunkBytes))]
  /\ wcPc' = [wcPc EXCEPT ![w] = "return"]
  /\ UNCHANGED <<wcArg, wcMutex, wcAllocated, wcHeld>>
  /\ LockFrame

\* the return runs the deferred f.Close() and mutex.Unlock()
WriteChunkReturn(w) ==
  /\ wcPc[w] = "return"
  /\ wcHeld' = wcHeld \ {wcMutex[w]}
  /\ wcPc' = [wcPc EXCEPT ![w] = "idle"]
  /\ UNCHANGED <<wcArg, wcMutex, wcAllocated, wcFile>>
  /\ LockFrame

InitWriteChunks ==
  \E kind \in {"absent", "file", "dir"} :
    /\ IdleS3 /\ IdleCopy /\ IdleLocal /\ IdlePut /\ IdleRetry /\ IdleList
    /\ IdleVisit /\ IdleLocalWalk /\ IdleRange
    /\ IdleSign /\ IdleSess /\ IdleListDir /\ IdleSrc /\ IdleGet
    /\ InitLock([kind |-> kind, data |-> IF kind = "file" THEN <<9>> ELSE <<>>,
                 denied |-> FALSE])

NextWriteChunks ==
  \E w \in Writers :
    \/ WriteChunkBegin(w)
    \/ WriteChunkLock(w)
    \/ WriteChunkOpenFile(w)
    \/ WriteChunkWriteAt(w)
    \/ WriteChunkReturn(w)

SpecWriteChunks == InitWriteChunks /\ [][NextWriteChunks]_vars

------------------------------------------------------------------------------
(* GetObject with a range on both stores.  The object holds the same bytes
   on both; the model's one letter spells the unit "bytes". *)

bytesUnit == <<"u">>

GetFrame ==
  UNCHANGED <<s3vars, copyvars, localvars, putvars, retryvars, listvars, visitvars,
              lwalkvars, rangevars, signvars, sessvars, ldirvars, srcvars, lockvars>>

\* make([]byte, n) and File.ReadAt(buf, off): the bytes of the file from
\* offset off that fit the buffer, the rest of the buffer zero
ReadAt(data, n, off) ==
  [k \in 1..n |-> IF off + k <= Len(data) THEN data[off + k] ELSE 0]

\* a local range read that takes the end offset as the last byte to return
BlockGetObjectRangeInclusive(there, data, rng) ==
  IF rng = <<>> \/ ~there
  THEN [called |-> TRUE, err |-> IF there THEN "nil" ELSE "FileNotFoundError",
        nil |-> ~there, body |-> IF there THEN data ELSE <<>>]
  ELSE LET readRange == parseRange(rng)
       IN IF readRange.err # "nil"
          THEN [called |-> TRUE, err |-> readRange.err, nil |-> TRUE, body |-> <<>>]
          ELSE IF readRange.r.End - readRange.r.Start + 1 < 0
          THEN [called |-> TRUE, err |-> "panic", nil |-> TRUE, body |-> <<>>]
          ELSE [called |-> TRUE, err |-> "nil", nil |-> FALSE,
                body |-> ReadAt(data, readRange.r.End - readRange.r.Start + 1,
                                readRange.r.Start)]

\* BlockFS.GetObject: os.Open, parseRange, the buffer of End-Start bytes (a
\* negative length panics), ReadAt whose count and error are dropped
BlockGetObjectRange(there, data, rng) ==
  IF rng = <<>> \/ ~there
  THEN [called |-> TRUE, err |-> IF there THEN "nil" ELSE "FileNotFoundError",
        nil |-> ~there, body |-> IF there THEN data ELSE <<>>]
  ELSE LET readRange == parseRange(rng)
       IN IF readRange.err # "nil"
          THEN [called |-> TRUE, err |-> readRange.err, nil |-> TRUE, body |-> <<>>]
          ELSE IF readRange.r.End - readRange.r.Start < 0
          THEN [called |-> TRUE, err |-> "panic", nil |-> TRUE, body |-> <<>>]
          ELSE [called |-> TRUE, err |-> "nil", nil |-> FALSE,
                body |-> ReadAt(data, readRange.r.End - readRange.r.Start,
                                readRange.r.Start)]

\* the store's answer to GetObject with the Range header rng: the bytes from
\* the first to the last offset named, both included; a header it cannot
\* read as a bytes range is ignored, a range that begins beyond the object
\* is refused
S3RangeReply(there, data, rng) ==
  IF ~there THEN [cause |-> "NoSuchKey", body |-> <<>>]
  ELSE LET m == FindStringSubmatch(rng)
       IN IF Len(m) # 4 \/ m[2] # bytesUnit \/ DecValue(m[3]) > DecValue(m[4])
          THEN [cause |-> "none", body |-> data]
          ELSE IF DecValue(m[3]) >= Len(data)
          THEN [cause |-> "InvalidRange", body |-> <<>>]
          ELSE [cause |-> "none",
                body |-> SubSeq(data, DecValue(m[3]) + 1, Min(DecValue(m[4]) + 1, Len(data)))]

\* S3FS.GetObject: the range string goes to the store as it is
S3GetObjectRange(there, data, rng) ==
  LET reply == S3RangeReply(there, data, rng)
  IN [called |-> TRUE, err |-> S3GetObjectErr(reply.cause),
      nil |-> reply.cause # "none", body |-> reply.body]

LocalGetObjectRangeCall ==
  /\ ~getOut["local"].called
  /\ getOut' = [getOut EXCEPT !["local"] = BlockGetObjectRange(getThere, getData, getRange)]
  /\ UNCHANGED <<getThere, getData, getRange>>
  /\ GetFrame

S3GetObjectRangeCall ==
  /\ ~getOut["s3"].called
  /\ getOut' = [getOut EXCEPT !["s3"] = S3GetObjectRange(getThere, getData, getRange)]
  /\ UNCHANGED <<getThere, getData, getRange>>
  /\ GetFrame

\* the decimal offsets the model can write
OffsetDigits == UNION {[1..n -> Digits] : n \in 1..MaxOffsetDigits}

\* no range, a string that is no range, and unit=a-b for all the offsets
GetRanges ==
  {<<>>, <<"u", "=">>} \cup {bytesUnit \o <<"=">> \o a \o <<"-">> \o b : a, b \in OffsetDigits}

InitGetRange ==
  \E there \in BOOLEAN, len \in 0..MaxGetLen, rng \in GetRanges :
    /\ IdleS3 /\ IdleCopy /\ IdleLocal /\ IdlePut /\ IdleRetry /\ IdleList
    /\ IdleVisit /\ IdleLocalWalk /\ IdleRange
    /\ IdleSign /\ IdleSess /\ IdleListDir /\ IdleSrc /\ IdleLock
    /\ there \/ len = 0
    /\ InitGet(there, [n \in 1..len |-> n], rng)

NextGetRange == LocalGetObjectRangeCall \/ S3GetObjectRangeCall

SpecGetRange == InitGetRange /\ [][NextGetRange]_vars

Next == NextDelete \/ NextCopy \/ NextUpload \/ NextLookup \/ NextPut \/ NextPutCopy
        \/ NextRetry
        \/ NextListDir \/ NextWalk \/ NextRange \/ NextSigning \/ NextSession
        \/ NextLocalList \/ NextPutSource \/ NextWriteChunks \/ NextGetRange

------------------------------------------------------------------------------
(* The claims *)

Ceil(a, b) == (a + b - 1) \div b

NoDuplicates(s) == \A m, n \in 1..Len(s) : s[m] = s[n] => m = n

\* the number of keys the prefix dirPath held before the call
DescendantKeys == Cardinality({k \in bucket0 : HasPrefix(k, dirPath)})

\* C1: every bulk-delete request flushDeletes sends holds at most 1000 keys.
C1_BatchWithinMax ==
  \A c \in Callers : Len(lastReq[c]) <= maxDelBufferSize

\* C2: DeleteObjects on the one path dirPath, a prefix with N >= 1 descendant
\* keys, has sent exactly ceil(N/1000) bulk-delete requests when it returns,
\* the last of them holding only keys that no earlier request held.
C2_BatchCount ==
  \A c \in Callers :
    (op[c] = "DeleteObjects" /\ pc[c] = "done" /\ objects[c] = <<dirPath>>
       /\ DescendantKeys >= 1 /\ faults = 0)
    => /\ nReq[c] = Ceil(DescendantKeys, maxDelBufferSize)
       /\ Range(lastReq[c]) \cap sentBefore[c] = {}

\* the scenario of C3: InitializeObjectUpload on a fresh destination, then
\* WriteChunk for the chunk indices 0, 1, 2 in this order, then
\* CompleteObjectUpload
ThreeChunkUpload ==
  /\ session # 0 /\ initFresh /\ completed
  /\ Len(written) = 3
  /\ \A k \in 1..3 : written[k].ChunkId = k - 1

\* C3 as stated: after the scenario the destination holds A, B, C in a row,
\* x + y + z bytes, whatever the sizes x, y, z.
C3_AnySizes ==
  ThreeChunkUpload =>
    /\ fs["a"].data = written[1].Data \o written[2].Data \o written[3].Data
    /\ Len(fs["a"].data) = Len(written[1].Data) + Len(written[2].Data) + Len(written[3].Data)

\* C3 as amended: after the scenario, when chunks 0 and 1 are each exactly
\* Config.ChunkSize bytes long, the destination holds A, B, C in a row and
\* x + y + z bytes.
C3_FullChunks ==
  (ThreeChunkUpload /\ Len(written[1].Data) = ChunkSize /\ Len(written[2].Data) = ChunkSize)
  => /\ fs["a"].data = written[1].Data \o written[2].Data \o written[3].Data
     /\ Len(fs["a"].data) = Len(written[1].Data) + Len(written[2].Data) + Len(written[3].Data)

C3_Witness ==
  /\ ThreeChunkUpload
  /\ ChunkSize > 0
  /\ Len(written[1].Data) = ChunkSize /\ Len(written[2].Data) = ChunkSize
  /\ Len(written[3].Data) > 0 /\ Len(written[3].Data) # ChunkSize
  /\ fs["a"].data = written[1].Data \o written[2].Data \o written[3].Data

\* C4: the k-th part-copy request (k counted from 0) of a source of size S
\* carries the range k*C .. min((k+1)*C, S) - 1, so no range ends at S or beyond.
C4_RangesWithinSource ==
  \A k \in 1..Len(partRequests) :
    /\ partRequests[k].Range.unit = "bytes"
    /\ partRequests[k].Range.start = (k - 1) * max_copy_chunk_size
    /\ partRequests[k].Range.end = Min(k * max_copy_chunk_size, fileSize) - 1

\* C5: when a chunked copy has returned and none of its part-copy requests
\* failed, ceil(S/C) part-copy requests were sent and the one completion
\* request carries the parts numbered 1, 2, ..., ceil(S/C) in this order, each
\* with the tag the backend returned for that part.
C5_PartsInOrder ==
  (cpPc = "done" /\ uploadId # "none" /\ ~partFailed)
  => /\ Len(partRequests) = Ceil(fileSize, max_copy_chunk_size)
     /\ Len(completeRequests) = 1
     /\ Len(completeRequests[1]) = Ceil(fileSize, max_copy_chunk_size)
     /\ \A k \in 1..Len(completeRequests[1]) :
          /\ completeRequests[1][k].PartNumber = k
          /\ partRequests[k].PartNumber = k
          /\ completeRequests[1][k].ETag = TrimQuotes(partTags[k])

C5_Witness ==
  /\ cpPc = "done" /\ uploadId = "completed" /\ ~partFailed
  /\ Len(completeRequests) = 1
  /\ Len(completeRequests[1]) > max_put_object_copy_size \div max_copy_chunk_size
  /\ fileSize % max_copy_chunk_size # 0

\* C6: when a part-copy request of a chunked copy has failed and CopyObject
\* has returned, an abort was attempted, no completion request was sent and
\* CopyObject returned an error.
C6_PartFailureSurfaces ==
  (cpPc = "done" /\ partFailed)
  => /\ abortRequests >= 1
     /\ completeRequests = <<>>
     /\ copyErr # "nil"

\* C7: the Walk of caller 2, beside the DeleteObjects of caller 1, moves its
\* continuation token on after every page and hands no key to its visitor twice.
C7_WalkUnaffected ==
  \A c \in Callers :
    op[c] = "Walk" =>
      /\ (pc[c] = "list" /\ count[c] > 0) => token[c] = resp[c].NextContinuationToken
      /\ NoDuplicates(visitLog[c])

C9_OtherFailuresAsIs ==
  \A b \in {"local", "s3"} :
    (lookup[b].call # "none" /\ lookup[b].cause \notin {"none", "ENOENT", "NoSuchKey"})
    => lookup[b].err = lookup[b].cause

\* C10: the list an S3 DeleteObjects returns after going through all its input
\* holds one error for every error its bulk-delete requests reported.
C10_ErrorsCollected ==
  \A c \in Callers :
    (op[c] = "DeleteObjects" /\ pc[c] = "done" /\ idx[c] > Len(objects[c]))
    => Len(ret[c]) = failedOps[c]

\* C10 on the local store: the list holds one error for every path whose
\* removal failed, and nothing else.
C10_LocalErrorsCollected ==
  ldPc = "done" => (Len(ldRet) = ldFailed /\ \A n \in 1..Len(ldRet) : ldRet[n] # "nil")

\* C11 as stated: DeleteObjects sends no listing for an input path that names
\* nothing (its probe reports not-found).
C11_NotFoundSkipped ==
  \A c \in Callers :
    ~(op[c] = "DeleteObjects" /\ pc[c] \in {"list", "visit"} /\ prefix[c] = absentPath)

\* C11 as amended: an input path whose probe reports not-found is walked as a
\* prefix: the step after the probe starts a listing on that path and leaves
\* the delete buffer alone; after the flush that follows the Walk, the loop
\* goes on with the next input path.
C11_NotFoundWalked ==
  [][\A c \in Callers :
       /\ (/\ op[c] = "DeleteObjects" /\ pc[c] = "probe" /\ pc'[c] # "probe"
           /\ idx[c] <= Len(objects[c]) /\ objects[c][idx[c]] \notin bucket
           /\ faults' = faults)
          => /\ pc'[c] = "list"
             /\ prefix'[c] = objects[c][idx[c]]
             /\ token'[c] = Nil
             /\ delBuffer'[c] = delBuffer[c]
       /\ (op[c] = "DeleteObjects" /\ pc[c] = "flush" /\ pc'[c] # "flush")
          => (pc'[c] = "probe" /\ idx'[c] = idx[c] + 1)]_vars

C11_Witness ==
  /\ op[1] = "DeleteObjects" /\ pc[1] = "probe" /\ idx[1] = 2
  /\ Len(objects[1]) = 2 /\ objects[1][1] = absentPath
  /\ prefix[1] = absentPath /\ count[1] = 1 /\ faults = 0
  /\ nReq[1] = 0

\* C12: the ETag of a successful PutObject of a non-empty payload is the MD5
\* of the whole destination file as it stands after the write.
C12_ETagIsContentHash ==
  \A k \in 1..Len(putLog) :
    (putLog[k].err = "nil" /\ ~putLog[k].out.nil /\ Len(putPayload) > 0)
    => putLog[k].out.ETag = Md5Hex(putLog[k].after.data)

\* successful PutObject calls j and k, both to destinations that did not exist
FreshPuts(j, k) ==
  /\ putLog[j].err = "nil" /\ putLog[k].err = "nil"
  /\ putLog[j].before.kind = "absent" /\ putLog[k].before.kind = "absent"

\* C13 as stated: successful PutObject calls of the same payload to fresh
\* destinations leave the same destination content and return the same ETag,
\* whatever their source kinds.
C13_SameAcrossKinds ==
  \A j, k \in 1..Len(putLog) :
    FreshPuts(j, k)
    => /\ putLog[j].after = putLog[k].after
       /\ putLog[j].out.ETag = putLog[k].out.ETag

\* C13 as amended: the same, for a payload that is not empty; the content is
\* then the payload.
C13_SameAcrossKindsNonEmpty ==
  \A j, k \in 1..Len(putLog) :
    (FreshPuts(j, k) /\ Len(putPayload) > 0)
    => /\ putLog[j].after = putLog[k].after
       /\ putLog[j].after = FileOf(putPayload)
       /\ putLog[j].out.ETag = putLog[k].out.ETag

C13_Witness ==
  /\ Len(putLog) = 3 /\ Len(putPayload) > 0
  /\ putLog[1].kind = "Data" /\ putLog[2].kind = "Filepath" /\ putLog[3].kind = "Reader"
  /\ \A j, k \in 1..3 : FreshPuts(j, k) /\ putLog[j].after = FileOf(putPayload)
  /\ \A j, k \in 1..3 : putLog[j].out.ETag = putLog[k].out.ETag /\ putLog[j].out.ETag.set

\* C14: a PutObject whose source is a non-nil buffer of no bytes leaves the
\* directory of the destination in place, returns an output and no error, and
\* leaves the destination as it was: absent if it was absent, its content
\* unchanged if it was there.
C14_EmptyBufferNoWrite ==
  \A k \in 1..Len(putLog) :
    (putLog[k].kind = "Data" /\ Len(putPayload) = 0)
    => /\ putLog[k].dirAfter = Directory
       /\ putLog[k].err = "nil" /\ ~putLog[k].out.nil
       /\ putLog[k].after = putLog[k].before

C14_Witness ==
  /\ Len(putLog) >= 1 /\ Len(putPayload) = 0
  /\ putLog[1].kind = "Data"
  /\ putLog[1].dirBefore = Absent /\ putLog[1].dirAfter = Directory
  /\ putLog[1].before = Absent /\ putLog[1].after = Absent
  /\ putLog[1].err = "nil"

\* C15: a Send with MaxAttempts >= 0 invokes sendFunction at most
\* MaxAttempts + 1 times: once, and at most MaxAttempts retries.
C15_AtMostMaxAttemptsRetries ==
  MaxAttempts >= 0 => Len(sendLog) <= MaxAttempts + 1

\* C16: Send returns, for every MaxAttempts and whatever sendFunction returns;
\* no invocation follows one that succeeded; the pair returned is the pair of
\* the last invocation.
C16_SendTerminates ==
  /\ [](\A k \in 1..(Len(sendLog) - 1) : sendLog[k].err # "nil")
  /\ [](sendPc = "done" => (sendLog # <<>> /\ sendRet = sendLog[Len(sendLog)]))
  /\ <>(sendPc = "done")

C16_Witness ==
  /\ sendPc = "done" /\ Len(sendLog) = 3
  /\ sendLog[1].err = "failed" /\ sendLog[2].err = "failed"
  /\ sendLog[3].err = "nil" /\ sendRet = sendLog[3]
  /\ MaxAttempts > 2

\* the entries under the listed directory
ListedKeys == {k \in bucket : HasPrefix(k, dirPath)}

\* the keys ListDir returned
ReturnedKeys == {listRet.entries[k].Key : k \in 1..Len(listRet.entries)}

\* C17: a ListDir without Filter and with Size <= 1000 that returned without
\* error returned the entries of the page of index Page (pages counted from
\* 0, of Size entries, or of the store's maxKeys when Size is 0), each once,
\* and no other entry.
C17_ExactlyPageN ==
  (listPc = "done" /\ listRet.err = "nil" /\ ~listInput.Filter
     /\ listInput.Size <= DEFAULTMAXKEYS)
  => LET ps == IF listInput.Size > 0 THEN listInput.Size ELSE maxKeys
     IN /\ ReturnedKeys = {k \in ListedKeys : (k - 1) \div ps = listInput.Page}
        /\ Len(listRet.entries) = Cardinality(ReturnedKeys)

C17_Witness ==
  /\ listPc = "done" /\ listRet.err = "nil" /\ ~listInput.Filter
  /\ listInput.Size = 1 /\ listInput.Page = 1
  /\ Cardinality(ListedKeys) = 3
  /\ ReturnedKeys = {2}

\* C18: a ListDir with a Filter and Size > 0 that returned without error
\* returned only entries that contain Filter, each once, and as many of them
\* as there are, up to Size: all of them when fewer than Size exist.
C18_FilteredUpToSize ==
  (listPc = "done" /\ listRet.err = "nil" /\ listInput.Filter /\ listInput.Size > 0)
  => /\ ReturnedKeys \subseteq (ListedKeys \cap listMatch)
     /\ Len(listRet.entries) = Cardinality(ReturnedKeys)
     /\ Len(listRet.entries) = Min(listInput.Size, Cardinality(ListedKeys \cap listMatch))
     /\ Cardinality(ListedKeys \cap listMatch) < listInput.Size
        => ReturnedKeys = ListedKeys \cap listMatch

C18_Witness ==
  /\ listPc = "done" /\ listRet.err = "nil" /\ listInput.Filter
  /\ listInput.Size = 2 /\ Cardinality(ListedKeys) = 3
  /\ listMatch = {3} /\ ReturnedKeys = {3}

\* the keys under the walked prefix, in key order
WalkedKeys == SelectSeq(KeySeq, LAMBDA k : k \in bucket /\ HasPrefix(k, dirPath))

\* C19 on the S3 store: a Walk whose listings did not fail returns nil and has
\* handed every key to the visitor, whatever the visitor returned.
C19_S3VisitorErrorsLogged ==
  \A c \in Callers :
    (op[c] = "Walk" /\ pc[c] = "done" /\ faults = 0)
    => (ret[c] = <<>> /\ visitLog[c] = WalkedKeys)

\* C19 on the local store: a Walk that has returned has handed every path to
\* the visitor and returned nil, whatever the visitor returned.
C19_LocalVisitorErrorsLogged ==
  lwPc = "done" => (lwRet = "nil" /\ Len(lwVisited) = lwEntries)

\* C19: on both stores an error of the visitor function does not end Walk.
C19_VisitorErrorsIgnored ==
  C19_S3VisitorErrorsLogged /\ C19_LocalVisitorErrorsLogged

\* The ways to read s as unit=a-b with a unit of letters only and a and b
\* of decimal digits only
RangeForms(s) ==
  {f \in [unit : {SubSeq(s, 1, k) : k \in 1..Len(s)},
          a : {SubSeq(s, j, k) : j, k \in 1..Len(s)},
          b : {SubSeq(s, k, Len(s)) : k \in 1..Len(s)}] :
     /\ f.unit # <<>> /\ f.a # <<>> /\ f.b # <<>>
     /\ s = f.unit \o <<"=">> \o f.a \o <<"-">> \o f.b
     /\ \A k \in 1..Len(f.unit) : f.unit[k] \in Letters
     /\ \A k \in 1..Len(f.a) : f.a[k] \in Digits
     /\ \A k \in 1..Len(f.b) : f.b[k] \in Digits}

RangeParsedAs(f) ==
  /\ rangeOut.err = "nil"
  /\ rangeOut.r = [Unit |-> f.unit, Start |-> DecValue(f.a), End |-> DecValue(f.b)]

\* C20 as stated: parseRange returns {unit, a, b} for every input unit=a-b
\* with an alphabetic unit and decimal a <= b, and an error for every input
\* that is not of that form.
C20_ParsesEveryRange ==
  rangePc = "done" =>
    /\ \A f \in RangeForms(rangeInput) :
         DecValue(f.a) <= DecValue(f.b) => RangeParsedAs(f)
    /\ RangeForms(rangeInput) = {} => rangeOut.err # "nil"

\* C20, amended: parseRange returns {unit, a, b} for every input unit=a-b
\* with an alphabetic unit and decimal a <= b that both fit an int64, and an
\* error for every input that is not of that form.
C20_ParsesEveryInt64Range ==
  rangePc = "done" =>
    /\ \A f \in RangeForms(rangeInput) :
         DecValue(f.a) <= DecValue(f.b) /\ DecValue(f.b) <= MaxInt64
           => RangeParsedAs(f)
    /\ RangeForms(rangeInput) = {} => rangeOut.err # "nil"

C20_Witness ==
  /\ rangePc = "done"
  /\ rangeInput = <<"u", "=", "9", "-", "1", "1">>
  /\ rangeOut = [r |-> [Unit |-> <<"u">>, Start |-> 9, End |-> 11], err |-> "nil"]

\* The URL handed to PresignObject has no parameter of a signing name
NoSigningNames ==
  \A k \in 1..Len(signUri.RawQuery) : signUri.RawQuery[k][1] \notin SigningNames

VerifiedAtSigningInstant ==
  signPc = "signed" /\ tampered = 0 /\ now = signedAt /\ verifyOut # "none"

C22_ExpiredNeverVerifies ==
  (signPc = "signed" /\ tampered = 0 /\ verifyOut # "none" /\ now >= ExpiresAt)
    => verifyOut = "false"

\* the signature PresignObject issued and the signature the URL carries now,
\* as VerifySignedObject decodes them
SignatureBytes(uri) ==
  DecodeString(QueryUnescape(Get(Query(uri), signatureQueryName)).text)

SignatureReencoded ==
  /\ tampered # 0
  /\ signedUrl.RawQuery[tampered][1] = signatureQueryName
  /\ SignatureBytes(signedUrl)
       = SignatureBytes(PresignObject(signUri, signKey, signExp, signedAt).url)

\* C23 as stated: after the value of any query parameter of a signed URL is
\* changed, VerifySignedObject with the original key returns false.
C23_TamperedNeverVerifies ==
  (tampered # 0 /\ verifyOut # "none") => verifyOut = "false"

\* C23, amended: the same, unless the changed parameter is X-Amx-Signature
\* and its new value decodes to the bytes of the old one.
C23_TamperedBytesNeverVerify ==
  (tampered # 0 /\ verifyOut # "none" /\ ~SignatureReencoded) => verifyOut = "false"

C23_Witness ==
  /\ tampered # 0 /\ verifyOut = "false" /\ everOk
  /\ signedUrl.RawQuery[tampered][1] = timeQueryName
  /\ signedUrl.RawQuery[tampered][2] = Text("date", signedAt \div Second + 1)
  /\ signExp = 1 /\ now < ExpiresAt /\ NoSigningNames

\* C24: PresignObject returns an error and no URL for every expiration
\* above 30 days.
C24_CeilingRejected ==
  (signExp > maxExpiration /\ signPc \notin {"idle", "call"})
    => /\ signPc = "rejected"
       /\ signErr = "Expiration time too long"
       /\ signedUrl = NoUrl

C24_Witness ==
  /\ signPc = "rejected" /\ signExp = maxExpiration + 1
  /\ signErr = "Expiration time too long" /\ signedUrl = NoUrl

UnknownSession(e) ==
  e.op \in {"WriteChunk", "CompleteObjectUpload"} /\ ~e.known

\* C25 on the S3 store: a WriteChunk or CompleteObjectUpload with an upload id
\* InitializeObjectUpload has not returned reports the service's NoSuchUpload
\* and stores nothing.
C25_S3UnknownSessionRejected ==
  \A k \in 1..Len(sessLog) :
    (sessLog[k].backend = "s3" /\ UnknownSession(sessLog[k]))
      => sessLog[k].err = "NoSuchUpload" /\ ~sessLog[k].wrote

\* C25 on the local store
C25_LocalUnknownSessionRejected ==
  \A k \in 1..Len(sessLog) :
    (sessLog[k].backend = "local" /\ UnknownSession(sessLog[k]))
      => sessLog[k].err # "nil" /\ ~sessLog[k].wrote

\* C25: WriteChunk or CompleteObjectUpload with a session id that no earlier
\* InitializeObjectUpload returned reports an error and does not write to the
\* destination, on both stores.
C25_UnknownSessionRejected ==
  C25_S3UnknownSessionRejected /\ C25_LocalUnknownSessionRejected

\* C26: ListDir on a local path that does not exist fails with
\* FileNotFoundError, the error GetObjectInfo returns for that path.
C26_ListDirNotFoundKind ==
  (listDirOut # NoListDir /\ fs[listDirOut.path] = Absent)
    => /\ listDirOut.err = "FileNotFoundError"
       /\ listDirOut.err = BlockGetObjectInfo(fs[listDirOut.path]).err

NoSourceRejected(b) ==
  srcOut[b].kind = "None"
    => /\ srcOut[b].err \notin {"nil", "panic"}
       /\ srcOut[b].nilOut
       /\ ~srcOut[b].created /\ ~srcOut[b].modified

\* C27 on the S3 store: PutObject with an ObjectSource that has no buffer, no
\* stream and no source file returns an error and stores nothing.
C27_S3NoSourceRejected ==
  NoSourceRejected("s3")
  /\ (srcOut["s3"].kind = "None" => srcOut["s3"].err = "Unable to get the Source Reader")

\* C27: PutObject with an ObjectSource that has no buffer, no stream and no
\* source file returns an invalid-input error on both stores and leaves the
\* destination uncreated and unmodified.
C27_NoSourceRejected == C27_S3NoSourceRejected /\ NoSourceRejected("local")

\* C28: a DeleteObjects call on a prefix whose keys span several listing
\* pages returns.
C28_DeleteTerminates == <>(pc[1] = "done")

\* Once the buffer of a DeleteObjects call holds more than 1000 entries no
\* step of the call removes a key: every request it sends is refused.
C28_NoDeleteOverLimit ==
  [][Len(delBuffer[1]) > maxDelBufferSize => bucket' = bucket]_vars

\* C29: within one DeleteObjects call on distinct paths a key sent in a
\* bulk-delete request is in no later request of the call, and in no request
\* twice.
C29_KeysSentOnce ==
  \A c \in Callers :
    (op[c] = "DeleteObjects" /\ NoDuplicates(objects[c])) =>
      /\ Range(lastReq[c]) \cap sentBefore[c] = {}
      /\ NoDuplicates(lastReq[c])

\* a call that has returned from mutex.Lock() and not yet run mutex.Unlock()
HoldsLock(w) == wcPc[w] \in {"open", "write", "return"}

\* C30: two concurrent WriteChunk calls for the same destination path are
\* never both between mutex.Lock() and mutex.Unlock().
C30_MutualExclusion == ~(HoldsLock(1) /\ HoldsLock(2))

\* a DeleteObjects call that is inside its internal Walk
InInternalWalk(c) == op[c] = "DeleteObjects" /\ pc[c] \in {"list", "visit"}

\* C31: with two DeleteObjects calls on one store, ignoreContinuationOnWalk is
\* true whenever one of them is inside its internal Walk, and false when
\* neither call is running.
C31_FlagHeldDuringWalk ==
  /\ \A c \in Callers : InInternalWalk(c) => ignoreContinuationOnWalk
  /\ (\A c \in Callers : pc[c] \in {"idle", "done"}) => ~ignoreContinuationOnWalk

\* C32: on a store built by NewFileStore, also from a config whose ChunkSize
\* is 0, WriteChunk calls with different chunk indices write at different
\* byte offsets.
C32_DefaultChunkSize ==
  \A m, n \in 1..Len(written) :
    (written[m].ChunkId # written[n].ChunkId /\ written[m].Data # <<>> /\ written[n].Data # <<>>)
    => ChunkOffset(written[m].ChunkId, ChunkSize) # ChunkOffset(written[n].ChunkId, ChunkSize)

\* after a successful local CopyObject the destination equals the source
C33_CopyEqualsSource ==
  \A k \in 1..Len(putLog) :
    (putLog[k].err = "nil" /\ putLog[k].kind = "Copy") => putLog[k].after = fs[PutSrc]

\* C33: after a successful local PutObject with a non-empty payload the
\* destination holds exactly the payload, whatever it held before, as the
\* destination of a successful local CopyObject holds exactly the source.
C33_DestinationEqualsPayload ==
  /\ \A k \in 1..Len(putLog) :
       (putLog[k].err = "nil" /\ putLog[k].kind # "Copy" /\ Len(putPayload) > 0)
       => putLog[k].after = FileOf(putPayload)
  /\ C33_CopyEqualsSource

\* both stores were asked for the range unit=a-b of an object that is there
\* and holds more than b bytes, a <= b
RangeRead(a, b) ==
  /\ getOut["local"].called /\ getOut["s3"].called
  /\ getThere
  /\ getRange = bytesUnit \o <<"=">> \o a \o <<"-">> \o b
  /\ DecValue(a) <= DecValue(b) /\ DecValue(b) < Len(getData)

\* C34: for the same stored bytes and the same range bytes=a-b with a <= b
\* inside the object, GetObject on the local store and on the S3 store return
\* the same bytes.
C34_SameBytesOnBothStores ==
  \A a, b \in OffsetDigits :
    RangeRead(a, b) =>
      /\ getOut["local"].err = "nil" /\ getOut["s3"].err = "nil"
      /\ getOut["local"].body = getOut["s3"].body

C36_StartAfterEndRejected ==
  \A a, b \in OffsetDigits :
    (/\ getOut["local"].called /\ getThere
     /\ getRange = bytesUnit \o <<"=">> \o a \o <<"-">> \o b
     /\ DecValue(a) > DecValue(b))
    => /\ parseRange(getRange).err # "nil"
       /\ getOut["local"].err \notin {"nil", "panic"}

\* C37: a ListDir with Size > 0 that returns a result returns at most Size
\* entries, from getPage and from getAllUpToMax, with and without a filter.
C37_AtMostSize ==
  (listPc = "done" /\ ~listRet.nil /\ listInput.Size > 0)
  => Len(listRet.entries) <= listInput.Size

\* the page of the listing that holds key: pages are cut from the entries
\* under the directory, in key order, listMaxKeys at a time
PageOf(key) ==
  Cardinality({k \in bucket : HasPrefix(k, dirPath) /\ k < key}) \div listMaxKeys

\* a ListDir call that has returned a result
Listed == listPc = "done" /\ ~listRet.nil

\* C38 as stated: in the result of a ListDir no entry of an earlier page
\* follows an entry of a later page, and within a page the prefixes come
\* before the objects.
C38_PageOrder ==
  Listed =>
    \A j, k \in 1..Len(listRet.entries) :
      j < k =>
        /\ PageOf(listRet.entries[j].Key) <= PageOf(listRet.entries[k].Key)
        /\ (PageOf(listRet.entries[j].Key) = PageOf(listRet.entries[k].Key)
            /\ listRet.entries[k].IsDir) => listRet.entries[j].IsDir

\* C38, amended: the result of a ListDir holds the prefixes of all the pages
\* it read before the objects of all these pages; among the prefixes, and
\* among the objects, no entry of an earlier page follows an entry of a later
\* page and the entries of a page are in the order of the page.
C38_PrefixesThenObjects ==
  Listed =>
    \A j, k \in 1..Len(listRet.entries) :
      j < k =>
        /\ listRet.entries[k].IsDir => listRet.entries[j].IsDir
        /\ listRet.entries[j].IsDir = listRet.entries[k].IsDir
           => /\ PageOf(listRet.entries[j].Key) <= PageOf(listRet.entries[k].Key)
              /\ listRet.entries[j].Key < listRet.entries[k].Key

\* a prefix of the second page is returned before an object of the first
C38_Witness ==
  /\ Listed /\ Len(listRet.entries) = 2
  /\ listRet.entries[1].IsDir /\ ~listRet.entries[2].IsDir
  /\ PageOf(listRet.entries[1].Key) = 1 /\ PageOf(listRet.entries[2].Key) = 0

\* C39: an S3 Walk beside no recursive delete hands the keys under the prefix
\* to the visitor in listing order, none twice; each request after the first
\* carries the NextContinuationToken of the page before it; the Walk returns,
\* and when no listing failed it returns nil having visited every key.
C39_WalkVisitsEachOnce ==
  /\ [](\A c \in Callers :
          op[c] = "Walk" =>
            /\ Len(visitLog[c]) <= Len(WalkedKeys)
            /\ visitLog[c] = SubSeq(WalkedKeys, 1, Len(visitLog[c]))
            /\ (pc[c] = "list" /\ count[c] > 0) => token[c] = resp[c].NextContinuationToken
            /\ (pc[c] = "done" /\ faults = 0) => (ret[c] = <<>> /\ visitLog[c] = WalkedKeys))
  /\ <>(pc[2] = "done")

\* a Walk over two pages has returned nil
C39_Witness ==
  /\ op[2] = "Walk" /\ pc[2] = "done" /\ faults = 0
  /\ count[2] = 2 /\ Len(visitLog[2]) = SmallPage + 1
  /\ ret[2] = <<>>

\* C40: a local DeleteObjects with a Progress function goes through the paths
\* in input order without stopping at a failure: it emits one progress event
\* per path, with Index the position of the path, Max -1 and Value the path,
\* and when it has returned no path is left that could be removed.
C40_EveryPathAttempted ==
  /\ Len(progress) <= Len(ldPaths)
  /\ \A n \in 1..Len(progress) :
       progress[n] = [Index |-> n - 1, Max |-> -1, Value |-> ldPaths[n]]
  /\ ldPc = "done" =>
       /\ Len(progress) = Len(ldPaths)
       /\ \A n \in 1..Len(ldPaths) :
            fs[ldPaths[n]].kind # "absent" => PathErrorOf(fs[ldPaths[n]]).type # "nil"

\* the first path could not be removed, the second was removed after it
C40_Witness ==
  /\ ldPc = "done" /\ Len(ldPaths) = 2 /\ ldPaths[1] # ldPaths[2]
  /\ ldFailed = 1 /\ ldErr = "nil"
  /\ fs[ldPaths[1]].denied /\ fs[ldPaths[2]].kind = "absent"
  /\ Len(progress) = 2

Spec == SpecDelete

====
